---- MODULE Spec2Model ----
(***************************************************************************)
(* Model of scripts/ingest_trades.py: the trade loader, the position       *)
(* reconstructor (build_positions) and the persistence writer.             *)
(*                                                                         *)
(* Encodings.  A timestamp is a positive integer (only its order is read), *)
(* NoTime stands for Python's None.  A strike is carried as the integer of *)
(* thousandths the OCC symbol holds (strike_raw); a price is an integer of *)
(* 1/10000 dollars.  A strategy id "{type}_{underlying}_{expiration}" with *)
(* its optional "_NN" suffix is the tuple <<type, underlying, expiration,  *)
(* n>>, n = 1 for the bare base id.  A leg id is the tuple <<strategy id,   *)
(* call_put, int(strike*1000), side>>.  A Python dict is a function whose  *)
(* domain is the set of keys present.                                      *)
(***************************************************************************)
EXTENDS Integers, Sequences, FiniteSets, TLC

VARIABLES
    trades,           \* load_trades' result, build_positions' argument
    pc,               \* position in build_positions / main
    order_groups,     \* the sorted (order_id, group) items the opening loop walks
    closing,          \* closing_trades
    order_idx,        \* index of the order group the opening loop is at
    trade_idx,        \* index of the trade inside that group
    close_idx,        \* index of the closing trade the closing loop is at
    strategy_id,      \* the local strategy_id of the opening loop
    strategies,       \* Dict[str, StrategyRecord]
    open_leg_lookup,  \* Dict[key, List[LegRecord]] (legs held by id)
    fill_records,     \* List[FillRecord]
    files,            \* the input batches main() finds, in discovery order
    runs,             \* every invocation of main() so far: its flags, its files
    db,               \* the store: tables strategies, legs, fills
    log,              \* what the current run of main() did to the store, in order
    csv_rows,         \* the raw rows of the CSV files the loader reads
    symbol,           \* the argument of parse_occ_symbol
    result,           \* the value a called function returned (or its error)
    fn,               \* call_with_retries: what each successive call of fn does
    retries,          \* call_with_retries: its argument retries
    backoff,          \* call_with_retries: its argument backoff
    attempt,          \* call_with_retries: the local attempt
    delay,            \* call_with_retries: the local delay
    sleeps,           \* the arguments of the time.sleep calls so far
    fn_calls,         \* the number of calls of fn so far
    ideas,            \* run_open_cycle: the generated ideas, each with its vetting
    max_trades,       \* run_open_cycle: its argument max_trades
    min_score,        \* run_open_cycle: its argument min_score
    open_calls,       \* the ideas open_from_idea was called with, in call order
    positions,        \* the positions file: the stored PaperPositions, in order
    cmd               \* the command that ran last on the positions file

retryvars == <<fn, retries, backoff, attempt, delay, sleeps, fn_calls>>

cyclevars == <<ideas, max_trades, min_score, open_calls>>

posvars == <<positions, cmd>>

vars == <<trades, pc, order_groups, closing, order_idx, trade_idx, close_idx,
          strategy_id, strategies, open_leg_lookup, fill_records, files, runs, db,
          log, csv_rows, retryvars, cyclevars, posvars, symbol, result>>

\* No call of call_with_retries, no open cycle and no positions file.
NoRetry ==
    /\ fn = <<>>
    /\ retries = 0
    /\ backoff = 0
    /\ attempt = 0
    /\ delay = 0
    /\ sleeps = <<>>
    /\ fn_calls = 0

NoCycle ==
    /\ ideas = <<>>
    /\ max_trades = 0
    /\ min_score = 0
    /\ open_calls = <<>>

NoPositions ==
    /\ positions = <<>>
    /\ cmd = <<>>


(***************************************************************************)
(* Bounds of the model and the input pools.                                *)
(***************************************************************************)
MaxTrades == 3
MaxTs == 2
MaxQty == 2
MaxExecs == 2
NumFiles == 2
MaxRuns == 2
MaxGroup == 4
MaxRoot == 3
MaxRows == 3

NoTime == 0

Underlyings == {"SPY"}
Expirations == {"2024-01-19"}
OrderIds == {"o1", "o2"}
Prices == {150}
Fees == {0}
\* The option contracts of the pool: a short put and a long put, the two
\* legs of a put credit spread.
OptionLegs ==
    { [call_put |-> "PUT", strike |-> 100000, side |-> "SHORT"],
      [call_put |-> "PUT", strike |-> 95000, side |-> "LONG"] }

(***************************************************************************)
(* Generic helpers: Python's stable sort, min, Counter.most_common.        *)
(***************************************************************************)
Range(f) == { f[x] : x \in DOMAIN f }

\* list.sort(key=...) / sorted(..., key=...): stable, ascending; keys[i] is
\* the key of seq[i].
StableSort(seq, keys) ==
    LET n == Len(seq)
        rank(i) == 1 + Cardinality({ j \in 1..n :
                        \/ keys[j] < keys[i]
                        \/ keys[j] = keys[i] /\ j < i })
    IN  [p \in 1..n |-> seq[CHOOSE i \in 1..n : rank(i) = p]]

MinOf(S) == CHOOSE x \in S : \A y \in S : x <= y

\* Counter(vals).most_common(1)[0][0]: the most frequent value, the first
\* one met among equally frequent ones.
MostCommon(vals) ==
    LET count(v) == Cardinality({ j \in DOMAIN vals : vals[j] = v })
        i == CHOOSE k \in DOMAIN vals :
                /\ \A j \in DOMAIN vals : count(vals[j]) <= count(vals[k])
                /\ \A j \in 1..(k - 1) : count(vals[j]) < count(vals[k])
    IN  vals[i]

RECURSIVE SumSeq(_)
SumSeq(s) == IF s = <<>> THEN 0 ELSE Head(s) + SumSeq(Tail(s))

\* round(n / d, 0) for d > 0: Python rounds half to even.
RoundHalfEven(n, d) ==
    LET q == n \div d
        r == n % d
    IN  IF 2 * r < d THEN q
        ELSE IF 2 * r > d THEN q + 1
        ELSE IF q % 2 = 0 THEN q ELSE q + 1

(***************************************************************************)
(* Trade normalisation helpers.                                            *)
(***************************************************************************)
determine_side(action, intent) ==
    IF intent = "OPEN"
    THEN (IF action = "SELL" THEN "SHORT" ELSE "LONG")
    ELSE (IF action = "BUY" THEN "SHORT" ELSE "LONG")

\* int(trade.strike * 1000) where trade.strike = int(strike_raw) / 1000.0:
\* the float product falls just below the integer for some strikes, and int()
\* truncates (1.001 * 1000 = 1000.9999999999999).
InexactStrikes == {1001, 1003, 1005, 1007, 1009, 2002, 2006, 4004, 4007}
StrikeMillis(strike) == IF strike \in InexactStrikes THEN strike - 1 ELSE strike

\* A ParsedTrade of the pool; side is derived as iter_trades_from_csv does.
ParsedTrade(ts, und, exp, leg, qty, price, intent, oid, tid, fees) ==
    LET action == IF intent = "OPEN"
                  THEN (IF leg.side = "SHORT" THEN "SELL" ELSE "BUY")
                  ELSE (IF leg.side = "SHORT" THEN "BUY" ELSE "SELL")
    IN  [ timestamp |-> ts, underlying |-> und, expiration |-> exp,
          call_put |-> leg.call_put, strike |-> leg.strike, quantity |-> qty,
          price |-> price, action |-> action, intent |-> intent,
          side |-> determine_side(action, intent),
          order_id |-> oid, trade_id |-> tid, fees |-> fees ]

\* Every trade the loader can emit from the pool, trade_id left to the caller.
\* The quantity is positive: iter_trades_from_csv skips quantity 0.  An
\* opening execution fills one contract (a larger position is opened by
\* several executions, which accumulate on the leg); a closing execution
\* asks for 1..MaxQty contracts.
TradePool ==
    { ParsedTrade(ts, und, exp, leg, qty, price, "OPEN", oid, 0, fees) :
        ts \in 1..MaxTs, und \in Underlyings, exp \in Expirations,
        leg \in OptionLegs, qty \in {1}, price \in Prices,
        oid \in OrderIds, fees \in Fees }
    \cup
    { ParsedTrade(ts, und, exp, leg, qty, price, "CLOSE", "oc", 0, fees) :
        ts \in 1..MaxTs, und \in Underlyings, exp \in Expirations,
        leg \in OptionLegs, qty \in 1..MaxQty, price \in Prices,
        fees \in Fees }

TimestampOf(t) == t.timestamp

IsSortedByTs(s) == \A i \in 1..(Len(s) - 1) : s[i].timestamp <= s[i + 1].timestamp

(***************************************************************************)
(* choose_strategy_type and allocate_strategy_id.                          *)
(***************************************************************************)
\* Mutant of choose_strategy_type: the legs are counted instead of compared
\* with the four (call_put, side) pairs.
choose_strategy_type_by_count(group) ==
    LET has(cp) == \E i \in DOMAIN group : group[i].call_put = cp
    IN  IF has("CALL") /\ has("PUT")
        THEN (IF Len(group) >= 4 THEN "IC" ELSE "Strangle")
        ELSE IF has("PUT")
        THEN (IF Len(group) >= 2 THEN "PCS" ELSE "Strangle")
        ELSE IF has("CALL")
        THEN (IF Len(group) >= 2 THEN "CCS" ELSE "Strangle")
        ELSE "Unknown"

choose_strategy_type(group) ==
    LET has(cp) == \E i \in DOMAIN group : group[i].call_put = cp
        unique_sides == { <<group[i].call_put, group[i].side>> : i \in DOMAIN group }
    IN  IF has("CALL") /\ has("PUT")
        THEN IF { <<"CALL", "SHORT">>, <<"CALL", "LONG">>,
                  <<"PUT", "SHORT">>, <<"PUT", "LONG">> } \subseteq unique_sides
             THEN "IC" ELSE "Strangle"
        ELSE IF has("PUT")
        THEN IF { <<"PUT", "SHORT">>, <<"PUT", "LONG">> } \subseteq unique_sides
             THEN "PCS" ELSE "Strangle"
        ELSE IF has("CALL")
        THEN IF { <<"CALL", "SHORT">>, <<"CALL", "LONG">> } \subseteq unique_sides
             THEN "CCS" ELSE "Strangle"
        ELSE "Unknown"

\* Mutant of allocate_strategy_id: the base id is handed out again.
allocate_strategy_id_base(base, existing) == <<base[1], base[2], base[3], 1>>

\* base is <<type, underlying, expiration>>; the result carries suffix 1 for
\* the base id itself and n >= 2 for f"{base}_{n:02d}".
allocate_strategy_id(base, existing) ==
    LET candidate(n) == <<base[1], base[2], base[3], n>>
    IN  IF candidate(1) \notin DOMAIN existing
        THEN candidate(1)
        ELSE candidate(CHOOSE n \in 2..(Cardinality(DOMAIN existing) + 2) :
                /\ candidate(n) \notin DOMAIN existing
                /\ \A m \in 2..(n - 1) : candidate(m) \in DOMAIN existing)

(***************************************************************************)
(* build_positions: the partition of the trades.                           *)
(***************************************************************************)
\* orders: the OPEN trades by order_id, as the dict's items in insertion
\* order (the order in which each order_id is first met).
orders(ts) ==
    LET opens == SelectSeq(ts, LAMBDA t : t.intent = "OPEN")
        idx == [i \in 1..Len(opens) |-> i]
        firsts == SelectSeq(idx, LAMBDA i :
                      \A j \in 1..(i - 1) : opens[j].order_id # opens[i].order_id)
    IN  [k \in 1..Len(firsts) |->
            [ order_id |-> opens[firsts[k]].order_id,
              group |-> SelectSeq(opens, LAMBDA t :
                            t.order_id = opens[firsts[k]].order_id) ]]

closing_trades(ts) == SelectSeq(ts, LAMBDA t : t.intent # "OPEN")

GroupMinTs(item) == MinOf({ item.group[i].timestamp : i \in DOMAIN item.group })

\* sorted(orders.items(), key=lambda item: min(t.timestamp for t in item[1]))
SortedOrders(ts) ==
    StableSort(orders(ts), [k \in DOMAIN orders(ts) |-> GroupMinTs(orders(ts)[k])])

(***************************************************************************)
(* build_positions: the records and the loop bodies.  env is the record of *)
(* the three collections the function builds.                              *)
(***************************************************************************)
EmptyEnv == [ strategies |-> <<>>, open_leg_lookup |-> <<>>, fill_records |-> <<>> ]

StrategyRecord(id, und, type, opened) ==
    [ id |-> id, underlying |-> und, strategy_type |-> type, status |-> "OPEN",
      opened_at |-> opened, closed_at |-> NoTime, legs |-> <<>> ]

LegRecord(id, sid, trade) ==
    [ id |-> id, strategy_id |-> sid, side |-> trade.side,
      call_put |-> trade.call_put, strike |-> trade.strike,
      expiration |-> trade.expiration, open_quantity |-> 0,
      remaining_quantity |-> 0, total_signed_premium |-> 0,
      opened_at |-> NoTime, closed_at |-> NoTime ]

FillRecord(trade, leg_id, qty) ==
    [ id |-> trade.trade_id, leg_id |-> leg_id, ts |-> trade.timestamp,
      action |-> trade.action, price |-> trade.price, qty |-> qty,
      fees |-> trade.fees ]

\* Mutant of LegId: an id made per execution instead of per contract of the
\* strategy, so that a repeated open never finds its leg.
LegIdPerTrade(sid, trade) ==
    <<sid, trade.call_put, StrikeMillis(trade.strike) + trade.trade_id, trade.side>>

LegId(sid, trade) == <<sid, trade.call_put, StrikeMillis(trade.strike), trade.side>>

LookupKey(trade) ==
    <<trade.underlying, trade.expiration, trade.call_put, trade.strike, trade.side>>

\* The id the opening loop gives the strategy of a group.
StrategyIdFor(env, group) ==
    LET underlying == MostCommon([i \in DOMAIN group |-> group[i].underlying])
        expiration == MostCommon([i \in DOMAIN group |-> group[i].expiration])
        strategy_type == choose_strategy_type(group)
    IN  allocate_strategy_id(<<strategy_type, underlying, expiration>>, env.strategies)

\* The head of the opening loop: the strategy of a group is created, OPEN and
\* without legs.
OpenOrderStep(env, group) ==
    LET sid == StrategyIdFor(env, group)
        opened_at == MinOf({ group[i].timestamp : i \in DOMAIN group })
        strategy == StrategyRecord(sid, sid[2], sid[1], opened_at)
    IN  [env EXCEPT !.strategies =
            IF sid \in DOMAIN @ THEN [@ EXCEPT ![sid] = strategy]
            ELSE @ @@ (sid :> strategy)]

\* The body of the inner opening loop for one trade of the group.
OpenTradeStep(env, sid, trade) ==
    LET leg_id == LegId(sid, trade)
        strategy == env.strategies[sid]
        isNew == leg_id \notin DOMAIN strategy.legs
        leg == IF isNew THEN LegRecord(leg_id, sid, trade) ELSE strategy.legs[leg_id]
        key == LookupKey(trade)
        lookup == IF ~isNew THEN env.open_leg_lookup
                  ELSE IF key \in DOMAIN env.open_leg_lookup
                  THEN [env.open_leg_lookup EXCEPT ![key] = Append(@, leg_id)]
                  ELSE env.open_leg_lookup @@ (key :> <<leg_id>>)
        signed == IF trade.side = "SHORT" THEN trade.price ELSE 0 - trade.price
        leg1 == [leg EXCEPT
                    !.open_quantity = @ + trade.quantity,
                    !.remaining_quantity = @ + trade.quantity,
                    !.total_signed_premium = @ + signed * trade.quantity,
                    !.opened_at = IF @ = NoTime \/ trade.timestamp < @
                                  THEN trade.timestamp ELSE @]
        legs1 == IF isNew THEN strategy.legs @@ (leg_id :> leg1)
                 ELSE [strategy.legs EXCEPT ![leg_id] = leg1]
    IN  [ strategies |-> [env.strategies EXCEPT ![sid].legs = legs1],
          open_leg_lookup |-> lookup,
          fill_records |-> Append(env.fill_records, FillRecord(trade, leg_id, trade.quantity)) ]

\* The LegRecord a lookup entry refers to.
LegOf(env, leg_id) == env.strategies[leg_id[1]].legs[leg_id]

NoLeg == <<>>

\* Mutant of MatchLeg: the remaining_quantity > 0 test is dropped.
MatchLegAnyBalance(env, trade) ==
    LET key == LookupKey(trade)
    IN  IF key \in DOMAIN env.open_leg_lookup
        THEN env.open_leg_lookup[key][1] ELSE NoLeg

\* The closing loop's choice of leg: the first candidate of the key's list
\* with remaining_quantity > 0, NoLeg when the key has no list or no such leg.
MatchLeg(env, trade) ==
    LET key == LookupKey(trade)
        legs == IF key \in DOMAIN env.open_leg_lookup
                THEN env.open_leg_lookup[key] ELSE <<>>
        live == { i \in DOMAIN legs : LegOf(env, legs[i]).remaining_quantity > 0 }
    IN  IF live = {} THEN NoLeg ELSE legs[MinOf(live)]

\* Mutant of AppliedQty: the close is applied untrimmed.
AppliedQtyUntrimmed(trade, leg) == trade.quantity

\* qty = min(trade.quantity, leg.remaining_quantity)
AppliedQty(trade, leg) ==
    IF trade.quantity < leg.remaining_quantity
    THEN trade.quantity ELSE leg.remaining_quantity

\* Mutant of RecomputeStatus: CLOSED as soon as one leg is fully closed.
RecomputeStatusAnyClosed(strategy, ts) ==
    IF \E l \in DOMAIN strategy.legs : strategy.legs[l].remaining_quantity = 0
    THEN [strategy EXCEPT !.status = "CLOSED", !.closed_at = ts]
    ELSE IF \E l \in DOMAIN strategy.legs :
                strategy.legs[l].remaining_quantity # strategy.legs[l].open_quantity
    THEN [strategy EXCEPT !.status = "ADJUSTED"]
    ELSE strategy

\* Mutant of RecomputeStatus: CLOSED is set without closed_at.
RecomputeStatusNoClosedAt(strategy, ts) ==
    IF \A l \in DOMAIN strategy.legs : strategy.legs[l].remaining_quantity = 0
    THEN [strategy EXCEPT !.status = "CLOSED"]
    ELSE IF \E l \in DOMAIN strategy.legs :
                strategy.legs[l].remaining_quantity # strategy.legs[l].open_quantity
    THEN [strategy EXCEPT !.status = "ADJUSTED"]
    ELSE strategy

\* Mutant of RecomputeStatus: ADJUSTED only once a leg is fully closed.
RecomputeStatusFullOnly(strategy, ts) ==
    IF \A l \in DOMAIN strategy.legs : strategy.legs[l].remaining_quantity = 0
    THEN [strategy EXCEPT !.status = "CLOSED", !.closed_at = ts]
    ELSE IF \E l \in DOMAIN strategy.legs : strategy.legs[l].remaining_quantity = 0
    THEN [strategy EXCEPT !.status = "ADJUSTED"]
    ELSE strategy

\* The status recomputation after a close, for the strategy as it now is.
RecomputeStatus(strategy, ts) ==
    IF \A l \in DOMAIN strategy.legs : strategy.legs[l].remaining_quantity = 0
    THEN [strategy EXCEPT !.status = "CLOSED", !.closed_at = ts]
    ELSE IF \E l \in DOMAIN strategy.legs :
                strategy.legs[l].remaining_quantity # strategy.legs[l].open_quantity
    THEN [strategy EXCEPT !.status = "ADJUSTED"]
    ELSE strategy

\* Mutant of ClosingFill: the fill records the quantity the trade asked for.
ClosingFillUntrimmed(trade, leg_id, qty) == FillRecord(trade, leg_id, trade.quantity)

\* The FillRecord appended for an applied closing trade.
ClosingFill(trade, leg_id, qty) == FillRecord(trade, leg_id, qty)

\* Mutant of CloseTradeStep: the closed quantity is taken off open_quantity
\* as well as off remaining_quantity.
CloseTradeStepConsumesOpen(env, trade) ==
    LET leg_id == MatchLeg(env, trade)
    IN  IF leg_id = NoLeg THEN env
        ELSE
        LET leg == LegOf(env, leg_id)
            qty == AppliedQty(trade, leg)
            remaining == leg.remaining_quantity - qty
            leg1 == [leg EXCEPT
                        !.open_quantity = @ - qty,
                        !.remaining_quantity = remaining,
                        !.closed_at = IF remaining = 0 THEN trade.timestamp ELSE @]
            sid == leg.strategy_id
            strats1 == [env.strategies EXCEPT ![leg_id[1]].legs[leg_id] = leg1]
            strats2 == IF sid \notin DOMAIN strats1 THEN strats1
                       ELSE [strats1 EXCEPT ![sid] = RecomputeStatus(@, trade.timestamp)]
        IN  [ strategies |-> strats2,
              open_leg_lookup |-> env.open_leg_lookup,
              fill_records |-> Append(env.fill_records, ClosingFill(trade, leg_id, qty)) ]

\* The body of the closing loop for one closing trade.
CloseTradeStep(env, trade) ==
    LET leg_id == MatchLeg(env, trade)
    IN  IF leg_id = NoLeg THEN env
        ELSE
        LET leg == LegOf(env, leg_id)
            qty == AppliedQty(trade, leg)
            remaining == leg.remaining_quantity - qty
            leg1 == [leg EXCEPT
                        !.remaining_quantity = remaining,
                        !.closed_at = IF remaining = 0 THEN trade.timestamp ELSE @]
            sid == leg.strategy_id
            strats1 == [env.strategies EXCEPT ![leg_id[1]].legs[leg_id] = leg1]
            strats2 == IF sid \notin DOMAIN strats1 THEN strats1
                       ELSE [strats1 EXCEPT ![sid] = RecomputeStatus(@, trade.timestamp)]
        IN  [ strategies |-> strats2,
              open_leg_lookup |-> env.open_leg_lookup,
              fill_records |-> Append(env.fill_records, ClosingFill(trade, leg_id, qty)) ]

FillTs(record) == record.ts

\* fill_records.sort(key=lambda record: record.ts)
SortFillRecords(env) ==
    [env EXCEPT !.fill_records = StableSort(@, [i \in DOMAIN @ |-> FillTs(@[i])])]

\* build_positions as a whole: the opening loop over the sorted groups, the
\* closing loop, the final sort.
RECURSIVE OpenGroupTrades(_, _, _, _)
OpenGroupTrades(env, sid, group, i) ==
    IF i > Len(group) THEN env
    ELSE OpenGroupTrades(OpenTradeStep(env, sid, group[i]), sid, group, i + 1)

RECURSIVE OpenAllOrders(_, _, _)
OpenAllOrders(env, items, k) ==
    IF k > Len(items) THEN env
    ELSE LET group == items[k].group
             sid == StrategyIdFor(env, group)
         IN  OpenAllOrders(OpenGroupTrades(OpenOrderStep(env, group), sid, group, 1),
                           items, k + 1)

RECURSIVE CloseAll(_, _, _)
CloseAll(env, closes, k) ==
    IF k > Len(closes) THEN env
    ELSE CloseAll(CloseTradeStep(env, closes[k]), closes, k + 1)

build_positions(ts) ==
    SortFillRecords(CloseAll(OpenAllOrders(EmptyEnv, SortedOrders(ts), 1),
                             closing_trades(ts), 1))


(***************************************************************************)
(* build_positions step by step.                                           *)
(***************************************************************************)
Env == [ strategies |-> strategies, open_leg_lookup |-> open_leg_lookup,
         fill_records |-> fill_records ]

SetEnv(env) ==
    /\ strategies' = env.strategies
    /\ open_leg_lookup' = env.open_leg_lookup
    /\ fill_records' = env.fill_records

\* Where build_positions continues once the opening loop is at group oi and
\* the closing loop at trade ci.
PhaseAt(groups, closes, oi, ci) ==
    IF oi <= Len(groups) THEN "open"
    ELSE IF ci <= Len(closes) THEN "close"
    ELSE "sort"

CurrentGroup == order_groups[order_idx].group
CurrentClose == closing[close_idx]

\* The trades are split into orders and closing_trades and the three
\* collections start empty.
Partition ==
    /\ pc = "partition"
    /\ SetEnv(EmptyEnv)
    /\ order_idx' = 1
    /\ trade_idx' = 0
    /\ close_idx' = 1
    /\ order_groups' = SortedOrders(trades)
    /\ closing' = closing_trades(trades)
    /\ pc' = PhaseAt(SortedOrders(trades), closing_trades(trades), 1, 1)
    /\ UNCHANGED <<log, csv_rows, retryvars, cyclevars, posvars, symbol, result, trades, strategy_id, files, runs, db>>

OpenOrder ==
    /\ pc = "open"
    /\ SetEnv(OpenOrderStep(Env, CurrentGroup))
    /\ strategy_id' = StrategyIdFor(Env, CurrentGroup)
    /\ trade_idx' = 1
    /\ pc' = "legs"
    /\ UNCHANGED <<log, csv_rows, retryvars, cyclevars, posvars, symbol, result, trades, order_groups, closing, order_idx, close_idx, files, runs, db>>

OpenTrade ==
    /\ pc = "legs"
    /\ SetEnv(OpenTradeStep(Env, strategy_id, CurrentGroup[trade_idx]))
    /\ IF trade_idx < Len(CurrentGroup)
       THEN /\ trade_idx' = trade_idx + 1
            /\ pc' = "legs"
            /\ UNCHANGED order_idx
       ELSE /\ trade_idx' = 0
            /\ order_idx' = order_idx + 1
            /\ pc' = PhaseAt(order_groups, closing, order_idx + 1, close_idx)
    /\ UNCHANGED <<log, csv_rows, retryvars, cyclevars, posvars, symbol, result, trades, order_groups, closing, close_idx, strategy_id, files, runs, db>>

CloseTrade ==
    /\ pc = "close"
    /\ SetEnv(CloseTradeStep(Env, CurrentClose))
    /\ close_idx' = close_idx + 1
    /\ pc' = PhaseAt(order_groups, closing, order_idx, close_idx + 1)
    /\ UNCHANGED <<log, csv_rows, retryvars, cyclevars, posvars, symbol, result, trades, order_groups, closing, order_idx, trade_idx, strategy_id,
                   files, runs, db>>

FinishBuild ==
    /\ pc = "sort"
    /\ SetEnv(SortFillRecords(Env))
    /\ pc' = "built"
    /\ UNCHANGED <<log, csv_rows, retryvars, cyclevars, posvars, symbol, result, trades, order_groups, closing, order_idx, trade_idx, close_idx,
                   strategy_id, files, runs, db>>

EmptyDb == [ strategies |-> <<>>, legs |-> <<>>, fills |-> <<>> ]

\* build_positions is called on the loader's output: trades sorted ascending
\* by timestamp, every quantity positive, one trade_id per execution.
InitOver(pool, maxlen) ==
    /\ \E n \in 0..maxlen : \E s \in [1..n -> pool] :
          /\ IsSortedByTs(s)
          /\ trades = [i \in 1..n |-> [s[i] EXCEPT !.trade_id = i]]
    /\ pc = "partition"
    /\ order_groups = <<>>
    /\ closing = <<>>
    /\ order_idx = 1
    /\ trade_idx = 0
    /\ close_idx = 1
    /\ strategy_id = <<>>
    /\ strategies = <<>>
    /\ open_leg_lookup = <<>>
    /\ fill_records = <<>>
    /\ files = <<>>
    /\ runs = <<>>
    /\ db = EmptyDb
    /\ log = <<>>
    /\ csv_rows = <<>>
    /\ NoRetry /\ NoCycle /\ NoPositions
    /\ symbol = <<>>
    /\ result = <<>>

InitUpTo(maxlen) == InitOver(TradePool, maxlen)

Init == InitUpTo(MaxTrades)

Next == Partition \/ OpenOrder \/ OpenTrade \/ CloseTrade \/ FinishBuild

Spec == Init /\ [][Next]_vars

\* The same run over inputs one trade longer: room for two orders that open
\* the same contract, one of them after it opened another, and a close.
InitLong == InitUpTo(MaxTrades + 1)

SpecLong == InitLong /\ [][Next]_vars

\* The same run over one order filled in lots: opening executions of one or
\* two contracts at two prices, and later closing executions of one or two.
LotOpens == {1, 2}

LotCloses == {2, 3}

LotQtys == {1, 2}

LotPrice(ts) == IF ts = 1 THEN 150 ELSE 200

LotPool ==
    { ParsedTrade(ts, und, exp, leg, qty, LotPrice(ts), "OPEN", "o1", 0, fees) :
        ts \in LotOpens, und \in Underlyings, exp \in Expirations,
        leg \in OptionLegs, qty \in LotQtys, fees \in Fees }
    \cup
    { ParsedTrade(ts, und, exp, leg, qty, LotPrice(ts), "CLOSE", "oc", 0, fees) :
        ts \in LotCloses, und \in Underlyings, exp \in Expirations,
        leg \in OptionLegs, qty \in LotQtys, fees \in Fees }

InitLots == InitOver(LotPool, MaxTrades)

SpecLots == InitLots /\ [][Next]_vars

(***************************************************************************)
(* The functions of the script called on their own: the argument is drawn  *)
(* in the initial state, the call is one step, the returned value is       *)
(* result.  The variables a specification does not use keep their initial  *)
(* value.                                                                  *)
(***************************************************************************)
buildvars == <<order_groups, closing, order_idx, trade_idx, close_idx, strategy_id,
               strategies, open_leg_lookup, fill_records>>

storevars == <<files, runs, db, log>>

NoBuild ==
    /\ order_groups = <<>>
    /\ closing = <<>>
    /\ order_idx = 1
    /\ trade_idx = 0
    /\ close_idx = 1
    /\ strategy_id = <<>>
    /\ strategies = <<>>
    /\ open_leg_lookup = <<>>
    /\ fill_records = <<>>

NoStore ==
    /\ files = <<>>
    /\ runs = <<>>
    /\ db = EmptyDb
    /\ log = <<>>

\* choose_strategy_type(trades) for the opening trades of one order: any
\* sequence of up to MaxGroup trades over the four (call_put, side) pairs;
\* the empty sequence is the call with no trade at all.
ClassifyLegs ==
    { [call_put |-> cp, strike |-> 100000, side |-> sd] :
        cp \in {"CALL", "PUT"}, sd \in {"SHORT", "LONG"} }

ClassifyPool ==
    { ParsedTrade(1, "SPY", "2024-01-19", leg, 1, 150, "OPEN", "o1", 0, 0) :
        leg \in ClassifyLegs }

InitClassify ==
    /\ \E n \in 0..MaxGroup : \E s \in [1..n -> ClassifyPool] :
          trades = [i \in 1..n |-> [s[i] EXCEPT !.trade_id = i]]
    /\ pc = "classify"
    /\ NoBuild
    /\ NoStore
    /\ csv_rows = <<>>
    /\ NoRetry /\ NoCycle /\ NoPositions
    /\ symbol = <<>>
    /\ result = <<>>

Classify ==
    /\ pc = "classify"
    /\ result' = choose_strategy_type(trades)
    /\ pc' = "classified"
    /\ UNCHANGED <<trades, buildvars, storevars, csv_rows, retryvars, cyclevars, posvars, symbol>>

NextClassify == Classify

SpecClassify == InitClassify /\ [][NextClassify]_vars

(***************************************************************************)
(* parse_occ_symbol.  A string is the sequence of its characters.  An      *)
(* expiration date is the tuple <<year, month, day>> its ISO text spells;  *)
(* a strike is the integer of thousandths, as above.  A parse result is a  *)
(* record whose error field is "" when the call returned and the raised    *)
(* ValueError's kind otherwise.                                            *)
(***************************************************************************)
Digits == {"0", "1", "2", "3", "4", "5", "6", "7", "8", "9"}

DigitVal ==
    ("0" :> 0) @@ ("1" :> 1) @@ ("2" :> 2) @@ ("3" :> 3) @@ ("4" :> 4) @@
    ("5" :> 5) @@ ("6" :> 6) @@ ("7" :> 7) @@ ("8" :> 8) @@ ("9" :> 9)

DigitChar == <<"0", "1", "2", "3", "4", "5", "6", "7", "8", "9">>

\* str.isdigit() of a non-empty string
IsDigitString(str) == str # <<>> /\ \A i \in DOMAIN str : str[i] \in Digits

\* int(str) for a string of decimal digits
RECURSIVE IntOf(_)
IntOf(str) ==
    IF str = <<>> THEN 0
    ELSE 10 * IntOf(SubSeq(str, 1, Len(str) - 1)) + DigitVal[str[Len(str)]]

\* f"{n:0{width}d}" for n >= 0: at least width digits, zero-padded
RECURSIVE ZeroPad(_, _)
ZeroPad(n, width) ==
    IF width <= 1 /\ n < 10 THEN <<DigitChar[n + 1]>>
    ELSE Append(ZeroPad(n \div 10, width - 1), DigitChar[(n % 10) + 1])

\* str.upper() on the letters of the model's alphabet
UpperChar(c) ==
    IF c = "c" THEN "C" ELSE IF c = "p" THEN "P" ELSE IF c = "s" THEN "S" ELSE c

\* symbol.strip().upper().replace(" ", "")
normalize_symbol(str) ==
    LET kept == SelectSeq(str, LAMBDA c : c # " ")
    IN  [i \in DOMAIN kept |-> UpperChar(kept[i])]

ParseError(kind) ==
    [ error |-> kind, root |-> <<>>, expiration |-> <<>>, call_put |-> "", strike |-> 0 ]

Parsed(root, expiration, call_put, strike) ==
    [ error |-> "", root |-> root, expiration |-> expiration,
      call_put |-> call_put, strike |-> strike ]

NoDate == <<>>

\* datetime.strptime(exp, "%y%m%d").date() for six digits: two digits each
\* for year, month and day (any shorter month or day leaves data
\* unconverted), years 00-68 in 2000, 69-99 in 1900; NoDate for ValueError.
strptime_yymmdd(exp) ==
    LET yy == IntOf(SubSeq(exp, 1, 2))
        mm == IntOf(SubSeq(exp, 3, 4))
        dd == IntOf(SubSeq(exp, 5, 6))
        year == IF yy <= 68 THEN 2000 + yy ELSE 1900 + yy
        leap == (year % 4 = 0 /\ year % 100 # 0) \/ year % 400 = 0
        days == IF mm \in {4, 6, 9, 11} THEN 30
                ELSE IF mm = 2 THEN (IF leap THEN 29 ELSE 28)
                ELSE 31
    IN  IF mm \in 1..12 /\ dd \in 1..days THEN <<year, mm, dd>> ELSE NoDate

parse_occ_symbol(str) ==
    LET cleaned == normalize_symbol(str)
        n == Len(cleaned)
        runs6 == { pos \in 1..(n - 6) : IsDigitString(SubSeq(cleaned, pos, pos + 5)) }
    IN  IF n < 16 THEN ParseError("symbol does not look like OCC format")
        ELSE IF runs6 = {} \/ MinOf(runs6) = 1
        THEN ParseError("could not locate expiration digits")
        ELSE
        LET idx == MinOf(runs6)
            root == SubSeq(cleaned, 1, idx - 1)
            rest == SubSeq(cleaned, idx, n)
        IN  IF Len(rest) < 7 THEN ParseError("malformed OCC symbol")
            ELSE
            LET exp == SubSeq(rest, 1, 6)
                cp_flag == rest[7]
                strike_raw == SubSeq(rest, 8, Len(rest))
                expiration == strptime_yymmdd(exp)
            IN  IF expiration = NoDate THEN ParseError("strptime")
                ELSE IF ~IsDigitString(strike_raw) THEN ParseError("int")
                ELSE Parsed(root, expiration,
                            IF UpperChar(cp_flag) = "C" THEN "CALL" ELSE "PUT",
                            IntOf(strike_raw))

\* The symbols the parser is called on: a root of up to MaxRoot characters,
\* with or without a space after it, six characters where the expiration
\* goes, a flag character and the strike digits.
RootChars == {"S", "7"}

Roots == UNION { [1..n -> RootChars] : n \in 0..MaxRoot }

ExpirationDates == { <<2024, 1, 19>>, <<1999, 12, 31>> }

\* yymmdd of a date
DateText(date) ==
    ZeroPad(date[1] % 100, 2) \o ZeroPad(date[2], 2) \o ZeroPad(date[3], 2)

DateTexts ==
    { DateText(d) : d \in ExpirationDates }
    \cup { <<"2", "4", "0", "2", "3", "0">>, <<"A", "B", "C", "D", "E", "F">> }

FlagChars == {"C", "P", "c", "X"}

Strikes == {100000, 95000}

StrikeTexts ==
    { ZeroPad(k, w) : k \in {1000} \cup Strikes, w \in {6, 7, 8} } \cup { <<>> }

SymbolPool ==
    { root \o sep \o date \o <<flag>> \o strike :
        root \in Roots, sep \in { <<>>, <<" ">> }, date \in DateTexts,
        flag \in FlagChars, strike \in StrikeTexts }

InitParse ==
    /\ NoRetry /\ NoCycle /\ NoPositions
    /\ symbol \in SymbolPool
    /\ pc = "parse"
    /\ trades = <<>>
    /\ NoBuild
    /\ NoStore
    /\ csv_rows = <<>>
    /\ result = <<>>

Parse ==
    /\ pc = "parse"
    /\ result' = parse_occ_symbol(symbol)
    /\ pc' = "parsed"
    /\ UNCHANGED <<trades, buildvars, storevars, csv_rows, retryvars, cyclevars, posvars, symbol>>

NextParse == Parse

SpecParse == InitParse /\ [][NextParse]_vars

(***************************************************************************)
(* The trade normaliser: iter_trades_from_csv and load_trades on raw rows. *)
(* A row is the record of the values get_first resolves for each logical   *)
(* field (NoValue when no alias of the field holds a non-empty value);     *)
(* every value is a string, i.e. a sequence of characters.  A timestamp is *)
(* the number of seconds since 2000-01-01 in a calendar of 31-day months,  *)
(* which keeps the order of datetimes.                                     *)
(***************************************************************************)
NoValue == <<>>

LowerChar(c) ==
    IF c = "S" THEN "s" ELSE IF c = "B" THEN "b" ELSE IF c = "O" THEN "o"
    ELSE IF c = "C" THEN "c" ELSE IF c = "E" THEN "e"
    ELSE IF c = "R" THEN "r" ELSE IF c = "A" THEN "a" ELSE IF c = "T" THEN "t"
    ELSE IF c = "L" THEN "l" ELSE IF c = "I" THEN "i" ELSE IF c = "M" THEN "m"
    ELSE c

Lower(str) == [i \in DOMAIN str |-> LowerChar(str[i])]

\* pat in str
IsSubstring(pat, str) ==
    \E i \in 1..(Len(str) - Len(pat) + 1) : SubSeq(str, i, i + Len(pat) - 1) = pat

\* str.strip(), the blank being the only whitespace of the alphabet
RECURSIVE Strip(_)
Strip(str) ==
    IF str # <<>> /\ str[1] = " " THEN Strip(Tail(str))
    ELSE IF str # <<>> /\ str[Len(str)] = " " THEN Strip(SubSeq(str, 1, Len(str) - 1))
    ELSE str

\* str.replace(ch, "")
Without(str, ch) == SelectSeq(str, LAMBDA c : c # ch)

\* str.split(sep) for a one-character separator
RECURSIVE SplitAt(_, _)
SplitAt(str, sep) ==
    IF \A i \in DOMAIN str : str[i] # sep THEN <<str>>
    ELSE LET k == MinOf({ i \in DOMAIN str : str[i] = sep })
         IN  <<SubSeq(str, 1, k - 1)>> \o SplitAt(SubSeq(str, k + 1, Len(str)), sep)

\* float(str) for the texts over digits, "-" and ".": the sign, the digits
\* before the point and the digits after it; ok is FALSE for ValueError.
DecimalOf(str) ==
    LET neg == str # <<>> /\ str[1] = "-"
        body == IF neg THEN Tail(str) ELSE str
        parts == SplitAt(body, ".")
        whole == parts[1]
        frac == IF Len(parts) = 2 THEN parts[2] ELSE <<>>
        digitsOnly(t) == \A i \in DOMAIN t : t[i] \in Digits
    IN  IF Len(parts) <= 2 /\ digitsOnly(whole) /\ digitsOnly(frac)
           /\ (whole # <<>> \/ frac # <<>>)
        THEN [ ok |-> TRUE, neg |-> neg, whole |-> IntOf(whole), frac |-> frac ]
        ELSE [ ok |-> FALSE, neg |-> FALSE, whole |-> 0, frac |-> <<>> ]

\* parse_quantity: abs(int(float(stripped))); int() drops the fraction.
parse_quantity(value) ==
    LET stripped == Strip(Without(value, ","))
    IN  IF stripped = <<>> THEN [ ok |-> TRUE, quantity |-> 0 ]
        ELSE IF ~DecimalOf(stripped).ok THEN [ ok |-> FALSE, quantity |-> 0 ]
        ELSE [ ok |-> TRUE, quantity |-> DecimalOf(stripped).whole ]

\* parse_float, in 1/10000: the texts of the pool have at most four digits
\* after the point.
parse_float(value) ==
    LET stripped == Strip(Without(value, ","))
        d == DecimalOf(stripped)
        frac4 == IntOf(SubSeq(d.frac \o <<"0", "0", "0", "0">>, 1, 4))
        magnitude == d.whole * 10000 + frac4
    IN  IF value = NoValue \/ stripped = <<>> \/ stripped = <<"-">>
        THEN [ ok |-> TRUE, value |-> 0 ]
        ELSE IF ~d.ok THEN [ ok |-> FALSE, value |-> 0 ]
        ELSE [ ok |-> TRUE, value |-> IF d.neg THEN 0 - magnitude ELSE magnitude ]

\* parse_action: action "" stands for the ValueError.
parse_action(action_raw) ==
    LET lower == Lower(action_raw)
        has(word) == IsSubstring(word, lower)
        buy == <<"b", "u", "y">>
        sell == <<"s", "e", "l", "l">>
        intent == IF has(<<"t", "o", " ", "o", "p", "e", "n">>) THEN "OPEN"
                  ELSE IF has(<<"t", "o", " ", "c", "l", "o", "s", "e">>) THEN "CLOSE"
                  ELSE IF has(buy) THEN "OPEN" ELSE "CLOSE"
    IN  [ action |-> IF has(sell) THEN "SELL" ELSE IF has(buy) THEN "BUY" ELSE "",
          intent |-> intent ]

\* A field of one or two digits with a value in lo..hi (the strptime
\* directives %m, %d, %H, %M, %S).
NumberField(field, lo, hi) ==
    IsDigitString(field) /\ Len(field) <= 2 /\ IntOf(field) \in lo..hi

DaysIn(year, month) ==
    IF month \in {4, 6, 9, 11} THEN 30
    ELSE IF month = 2
    THEN (IF (year % 4 = 0 /\ year % 100 # 0) \/ year % 400 = 0 THEN 29 ELSE 28)
    ELSE 31

\* The date of a text under DATE_PATTERNS, tried in order: %Y-%m-%d,
\* %m/%d/%Y, %m/%d/%y; NoDate when none matches.
ParseDate(date_str) ==
    LET text == Strip(date_str)
        dash == SplitAt(text, "-")
        slash == SplitAt(text, "/")
        valid(y, m, d) ==
            /\ IsDigitString(y) /\ NumberField(m, 1, 12) /\ NumberField(d, 1, 31)
            /\ IntOf(d) <= DaysIn(IntOf(y), IntOf(m))
        century(yy) == IF yy <= 68 THEN 2000 + yy ELSE 1900 + yy
    IN  IF Len(dash) = 3 /\ Len(dash[1]) = 4 /\ valid(dash[1], dash[2], dash[3])
           /\ IntOf(dash[1]) >= 1
        THEN <<IntOf(dash[1]), IntOf(dash[2]), IntOf(dash[3])>>
        ELSE IF Len(slash) = 3 /\ Len(slash[3]) = 4
                /\ valid(slash[3], slash[1], slash[2]) /\ IntOf(slash[3]) >= 1
        THEN <<IntOf(slash[3]), IntOf(slash[1]), IntOf(slash[2])>>
        ELSE IF Len(slash) = 3 /\ Len(slash[3]) = 2 /\ IsDigitString(slash[3])
                /\ valid(ZeroPad(century(IntOf(slash[3])), 4), slash[1], slash[2])
        THEN <<century(IntOf(slash[3])), IntOf(slash[1]), IntOf(slash[2])>>
        ELSE NoDate

\* The time of day, in seconds, of a text under TIME_PATTERNS: %H:%M:%S,
\* then %H:%M; the two AM/PM patterns match no text over digits and ":".
\* -1 when none matches.
ParseTime(time_str) ==
    LET parts == SplitAt(Strip(time_str), ":")
    IN  IF Len(parts) = 3 /\ NumberField(parts[1], 0, 23)
           /\ NumberField(parts[2], 0, 59) /\ NumberField(parts[3], 0, 59)
        THEN IntOf(parts[1]) * 3600 + IntOf(parts[2]) * 60 + IntOf(parts[3])
        ELSE IF Len(parts) = 2 /\ NumberField(parts[1], 0, 23)
                /\ NumberField(parts[2], 0, 59)
        THEN IntOf(parts[1]) * 3600 + IntOf(parts[2]) * 60
        ELSE 0 - 1

\* parse_timestamp: NoTime stands for the ValueError (missing date,
\* unrecognised date, unrecognised time); midnight when there is no time.
parse_timestamp(row) ==
    LET date == ParseDate(row.date)
        seconds == IF row.time = NoValue THEN 0 ELSE ParseTime(row.time)
    IN  IF row.date = NoValue \/ date = NoDate \/ seconds < 0 THEN NoTime
        ELSE (((date[1] - 2000) * 12 + (date[2] - 1)) * 31 + date[3]) * 86400 + seconds

\* The ISO text of a parsed expiration, as the build's trades carry it.
IsoDate(date) == date

\* One pass of the loop body of iter_trades_from_csv: kind is "trade" when
\* the row is yielded, "skip" when a continue leaves the body, "warning"
\* when an exception is caught and logged.
NormalizeRow(row) ==
    LET skip == [ kind |-> "skip", trade |-> <<>> ]
        warning == [ kind |-> "warning", trade |-> <<>> ]
        act == parse_action(row.action)
        sym == parse_occ_symbol(row.symbol)
        qty == parse_quantity(row.quantity)
        price == parse_float(row.price)
        fees == [i \in DOMAIN row.fees |-> parse_float(row.fees[i])]
        timestamp == parse_timestamp(row)
    IN  IF row.symbol = NoValue THEN skip
        ELSE IF row.instrument # NoValue
                /\ ~IsSubstring(<<"o", "p", "t", "i", "o", "n">>, Lower(row.instrument))
        THEN skip
        ELSE IF row.action = NoValue THEN skip
        ELSE IF act.action = "" THEN warning
        ELSE IF sym.error # "" THEN warning
        ELSE IF row.quantity = NoValue THEN skip
        ELSE IF ~qty.ok THEN warning
        ELSE IF qty.quantity = 0 THEN skip
        ELSE IF ~price.ok THEN warning
        ELSE IF \E i \in DOMAIN fees : ~fees[i].ok THEN warning
        ELSE IF timestamp = NoTime THEN warning
        ELSE [ kind |-> "trade",
               trade |-> [ timestamp |-> timestamp, underlying |-> sym.root,
                           expiration |-> IsoDate(sym.expiration),
                           call_put |-> sym.call_put, strike |-> sym.strike,
                           quantity |-> qty.quantity, price |-> price.value,
                           action |-> act.action, intent |-> act.intent,
                           side |-> determine_side(act.action, act.intent),
                           order_id |-> row.order_id, trade_id |-> row.trade_id,
                           fees |-> SumSeq([i \in DOMAIN fees |-> fees[i].value]) ] ]

\* Mutant of iter_trades_from_csv: the first exception ends the file.
RECURSIVE iter_trades_until_error(_)
iter_trades_until_error(file) ==
    IF file = <<>> THEN <<>>
    ELSE LET out == NormalizeRow(Head(file))
         IN  IF out.kind = "warning" THEN <<>>
             ELSE (IF out.kind = "trade" THEN <<out.trade>> ELSE <<>>)
                  \o iter_trades_until_error(Tail(file))

\* iter_trades_from_csv: the trades of the rows of one file, in row order.
RECURSIVE iter_trades_from_csv(_)
iter_trades_from_csv(file) ==
    IF file = <<>> THEN <<>>
    ELSE LET out == NormalizeRow(Head(file))
         IN  (IF out.kind = "trade" THEN <<out.trade>> ELSE <<>>)
             \o iter_trades_from_csv(Tail(file))



(***************************************************************************)
(* load_trades, persist and main: one ingestion run after another over the *)
(* files of the source directory, against the same store.                  *)
(***************************************************************************)
RECURSIVE Concat(_)
Concat(seqs) == IF seqs = <<>> THEN <<>> ELSE Head(seqs) \o Concat(Tail(seqs))

\* load_trades: the rows of every path in turn, then one stable sort by
\* timestamp.  A file is the sequence of ParsedTrade its rows normalise to.
load_trades(paths) ==
    StableSort(Concat(paths), [i \in DOMAIN Concat(paths) |-> TimestampOf(Concat(paths)[i])])

\* datetime.isoformat(timespec="seconds"): the parsed timestamps carry no
\* sub-second part (TIME_PATTERNS), so the text keeps the whole value.
IsoSeconds(ts) == ts

StrategyRow(strategy) ==
    [ id |-> strategy.id, underlying |-> strategy.underlying,
      strategy_type |-> strategy.strategy_type, status |-> strategy.status,
      opened_at |-> IsoSeconds(strategy.opened_at),
      closed_at |-> IF strategy.closed_at # NoTime
                    THEN IsoSeconds(strategy.closed_at) ELSE NoTime ]

\* avg_price = round(total_signed_premium / open_quantity, 4), in 1/10000.
LegRow(strategy, leg) ==
    [ id |-> leg.id, strategy_id |-> strategy.id, side |-> leg.side,
      call_put |-> leg.call_put, strike |-> leg.strike,
      expiration |-> leg.expiration, qty |-> leg.open_quantity,
      avg_price |-> IF leg.open_quantity # 0
                    THEN RoundHalfEven(leg.total_signed_premium, leg.open_quantity)
                    ELSE 0,
      opened_at |-> IF leg.opened_at # NoTime THEN IsoSeconds(leg.opened_at) ELSE NoTime,
      closed_at |-> IF leg.closed_at # NoTime THEN IsoSeconds(leg.closed_at) ELSE NoTime ]

FillRow(fill) == [fill EXCEPT !.ts = IsoSeconds(fill.ts)]

\* INSERT OR REPLACE: the row takes the place of any row with its id.
Upsert(table, row) ==
    IF row.id \in DOMAIN table THEN [table EXCEPT ![row.id] = row]
    ELSE table @@ (row.id :> row)

RECURSIVE UpsertAll(_, _)
UpsertAll(table, rows) ==
    IF rows = <<>> THEN table ELSE UpsertAll(Upsert(table, Head(rows)), Tail(rows))

\* The rows of a dict's values in some order: the ids are the dict's keys, so
\* the order of the upserts does not show in the table.
RECURSIVE RowsOf(_)
RowsOf(S) ==
    IF S = {} THEN <<>>
    ELSE LET r == CHOOSE x \in S : TRUE IN <<r>> \o RowsOf(S \ {r})

\* reset_tables: DELETE FROM fills, legs, strategies.
reset_tables(store) == EmptyDb

\* persist: every strategy row, the leg rows of each strategy, then the fill
\* rows in the order of the list.
persist(store, strats, fills) ==
    [ strategies |-> UpsertAll(store.strategies,
          RowsOf({ StrategyRow(strats[sid]) : sid \in DOMAIN strats })),
      legs |-> UpsertAll(store.legs,
          RowsOf(UNION { { LegRow(strats[sid], strats[sid].legs[l]) :
                              l \in DOMAIN strats[sid].legs } : sid \in DOMAIN strats })),
      fills |-> UpsertAll(store.fills, [i \in DOMAIN fills |-> FillRow(fills[i])]) ]

\* The files a run found, in discovery order.
FilesOf(run) ==
    LET idx == SelectSeq([i \in 1..Len(files) |-> i], LAMBDA i : i \in run.found)
    IN  [k \in 1..Len(idx) |-> files[idx[k]]]

ThisRun == runs[Len(runs)]

\* main() up to "if not trades": the flags are read, the files discovered
\* and loaded; the run ends here when there is no file or no trade.  A later
\* run finds at least the files an earlier one found.
MainLoad ==
    /\ pc \in {"idle", "done"}
    /\ Len(runs) < MaxRuns
    /\ \E reset \in BOOLEAN, dry_run \in BOOLEAN, found \in SUBSET (1..Len(files)) :
          /\ runs # <<>> => found = 1..Len(files)
          /\ runs' = Append(runs, [reset |-> reset, dry_run |-> dry_run, found |-> found])
          /\ LET loaded == load_trades(FilesOf([found |-> found]))
             IN  /\ trades' = IF found = {} THEN trades ELSE loaded
                 /\ pc' = IF found = {} \/ loaded = <<>> THEN "done" ELSE "loaded"
    /\ UNCHANGED <<log, csv_rows, retryvars, cyclevars, posvars, symbol, result, order_groups, closing, order_idx, trade_idx, close_idx, strategy_id,
                   strategies, open_leg_lookup, fill_records, files, db>>

\* strategies, fills = build_positions(trades); a dry run ends here.
MainBuild ==
    /\ pc = "loaded"
    /\ LET env == build_positions(trades)
       IN  /\ strategies' = env.strategies
           /\ fill_records' = env.fill_records
    /\ pc' = IF ThisRun.dry_run THEN "done" ELSE "assembled"
    /\ UNCHANGED <<log, csv_rows, retryvars, cyclevars, posvars, symbol, result, trades, order_groups, closing, order_idx, trade_idx, close_idx,
                   strategy_id, open_leg_lookup, files, runs, db>>

\* ensure_schema, reset_tables when --reset, persist, close.
MainPersist ==
    /\ pc = "assembled"
    /\ db' = persist(IF ThisRun.reset THEN reset_tables(db) ELSE db,
                     strategies, fill_records)
    /\ pc' = "done"
    /\ UNCHANGED <<log, csv_rows, retryvars, cyclevars, posvars, symbol, result, trades, order_groups, closing, order_idx, trade_idx, close_idx,
                   strategy_id, strategies, open_leg_lookup, fill_records, files, runs>>

\* One trade of unit quantity per execution keeps the runs small.
IngestPool == { t \in TradePool : t.quantity = 1 }

\* The source directory: up to MaxExecs executions, each with its own
\* trade_id, each exported to one file or to several (overlapping exports).
InitIngest ==
    /\ \E n \in 1..MaxExecs : \E s \in [1..n -> IngestPool] :
       \E m \in [1..n -> (SUBSET (1..NumFiles)) \ {{}}] :
          LET ledger == [i \in 1..n |-> [s[i] EXCEPT !.trade_id = i]]
          IN  files = [k \in 1..NumFiles |->
                          SelectSeq(ledger, LAMBDA t : k \in m[t.trade_id])]
    /\ trades = <<>>
    /\ pc = "idle"
    /\ order_groups = <<>>
    /\ closing = <<>>
    /\ order_idx = 1
    /\ trade_idx = 0
    /\ close_idx = 1
    /\ strategy_id = <<>>
    /\ strategies = <<>>
    /\ open_leg_lookup = <<>>
    /\ fill_records = <<>>
    /\ runs = <<>>
    /\ db = EmptyDb
    /\ log = <<>>
    /\ csv_rows = <<>>
    /\ NoRetry /\ NoCycle /\ NoPositions
    /\ symbol = <<>>
    /\ result = <<>>

NextIngest == MainLoad \/ MainBuild \/ MainPersist

SpecIngest == InitIngest /\ [][NextIngest]_vars

(***************************************************************************)
(* main() statement by statement: what a run executes on the connection,   *)
(* in order (log), and the tables that result.  Any number of runs follow  *)
(* one another, each in a process of its own; runs holds the current one,  *)
(* with the tables it started from.  The directory holds one file per      *)
(* execution and a run finds any of the files (files come and go between   *)
(* runs).                                                                  *)
(***************************************************************************)
Statement(op, table, row) == [ op |-> op, table |-> table, row |-> row ]

\* A fill written by the opening loop: its action opens the side of its leg.
IsOpeningFill(fill) ==
    fill.action = (IF fill.leg_id[4] = "SHORT" THEN "SELL" ELSE "BUY")

\* The keys of a dict in insertion order, first[k] being the position of the
\* first fill appended for key k: a strategy and a leg are inserted right
\* before their first opening fill is appended, and the final stable sort
\* by ts keeps these first fills in order.
InsertionOrder(keys, first) ==
    [p \in 1..Cardinality(keys) |->
        CHOOSE k \in keys : Cardinality({ y \in keys : first[y] < first[k] }) = p - 1]

StrategyOrder(strats, fills) ==
    InsertionOrder(DOMAIN strats,
        [sid \in DOMAIN strats |->
            MinOf({ i \in DOMAIN fills :
                        IsOpeningFill(fills[i]) /\ fills[i].leg_id[1] = sid })])

LegOrder(strategy, fills) ==
    InsertionOrder(DOMAIN strategy.legs,
        [l \in DOMAIN strategy.legs |->
            MinOf({ i \in DOMAIN fills :
                        IsOpeningFill(fills[i]) /\ fills[i].leg_id = l })])

\* Mutant of persist_statements: the fills are written first.
persist_statements_fills_first(strats, fills) ==
    LET order == StrategyOrder(strats, fills)
    IN  [i \in DOMAIN fills |-> Statement("upsert", "fills", FillRow(fills[i]))]
        \o Concat([k \in DOMAIN order |->
                LET strategy == strats[order[k]]
                    legs == LegOrder(strategy, fills)
                IN  <<Statement("upsert", "strategies", StrategyRow(strategy))>>
                    \o [j \in DOMAIN legs |->
                           Statement("upsert", "legs", LegRow(strategy, strategy.legs[legs[j]]))]])

\* persist: for each strategy its row and then the rows of its legs, then
\* the fills in list order.
persist_statements(strats, fills) ==
    LET order == StrategyOrder(strats, fills)
    IN  Concat([k \in DOMAIN order |->
                LET strategy == strats[order[k]]
                    legs == LegOrder(strategy, fills)
                IN  <<Statement("upsert", "strategies", StrategyRow(strategy))>>
                    \o [j \in DOMAIN legs |->
                           Statement("upsert", "legs", LegRow(strategy, strategy.legs[legs[j]]))]])
        \o [i \in DOMAIN fills |-> Statement("upsert", "fills", FillRow(fills[i]))]

\* reset_tables: DELETE FROM fills; DELETE FROM legs; DELETE FROM strategies.
reset_statements ==
    << Statement("delete", "fills", <<>>), Statement("delete", "legs", <<>>),
       Statement("delete", "strategies", <<>>) >>

\* Mutant of main_statements: the tables are cleared after the rows are
\* written.
main_statements_reset_last(run, strats, fills) ==
    << Statement("connect", "", <<>>), Statement("schema", "", <<>>) >>
    \o persist_statements(strats, fills)
    \o (IF run.reset THEN reset_statements ELSE <<>>)
    \o << Statement("close", "", <<>>) >>

\* main() from sqlite3.connect on: ensure_schema, reset_tables when --reset,
\* persist, close.
main_statements(run, strats, fills) ==
    << Statement("connect", "", <<>>), Statement("schema", "", <<>>) >>
    \o (IF run.reset THEN reset_statements ELSE <<>>)
    \o persist_statements(strats, fills)
    \o << Statement("close", "", <<>>) >>

\* The tables after one statement: a table is a map from primary id to row.
Execute(store, stmt) ==
    IF stmt.op = "delete" THEN [store EXCEPT ![stmt.table] = <<>>]
    ELSE IF stmt.op = "upsert" THEN [store EXCEPT ![stmt.table] = Upsert(@, stmt.row)]
    ELSE store

RECURSIVE ExecuteAll(_, _)
ExecuteAll(store, stmts) ==
    IF stmts = <<>> THEN store ELSE ExecuteAll(Execute(store, Head(stmts)), Tail(stmts))

\* Mutant of SkipsStore: --dry-run is not looked at.
SkipsStoreNever(run) == FALSE

\* "if args.dry_run: ... return"
SkipsStore(run) == run.dry_run

RunLoad ==
    /\ pc \in {"idle", "done"}
    /\ \E reset \in BOOLEAN, dry_run \in BOOLEAN, found \in SUBSET (1..Len(files)) :
          /\ runs' = << [ reset |-> reset, dry_run |-> dry_run, found |-> found,
                          before |-> db ] >>
          /\ LET loaded == load_trades(FilesOf([found |-> found]))
             IN  /\ trades' = loaded
                 /\ pc' = IF loaded = <<>> THEN "done" ELSE "loaded"
    /\ strategies' = <<>>
    /\ fill_records' = <<>>
    /\ log' = <<>>
    /\ UNCHANGED <<order_groups, closing, order_idx, trade_idx, close_idx, strategy_id,
                   open_leg_lookup, files, db, csv_rows, retryvars, cyclevars, posvars, symbol, result>>

RunBuild ==
    /\ pc = "loaded"
    /\ LET env == build_positions(trades)
       IN  /\ strategies' = env.strategies
           /\ fill_records' = env.fill_records
    /\ pc' = IF SkipsStore(ThisRun) THEN "done" ELSE "assembled"
    /\ UNCHANGED <<trades, order_groups, closing, order_idx, trade_idx, close_idx,
                   strategy_id, open_leg_lookup, storevars, csv_rows, retryvars, cyclevars, posvars, symbol, result>>

RunPersist ==
    /\ pc = "assembled"
    /\ log' = main_statements(ThisRun, strategies, fill_records)
    /\ db' = ExecuteAll(db, main_statements(ThisRun, strategies, fill_records))
    /\ pc' = "done"
    /\ UNCHANGED <<trades, buildvars, files, runs, csv_rows, retryvars, cyclevars, posvars, symbol, result>>

\* The executions of the store runs: the two legs of order o1 and a later
\* close of its short leg.
StorePool ==
    { t \in IngestPool :
        /\ t.timestamp = (IF t.intent = "OPEN" THEN 1 ELSE 2)
        /\ t.order_id \in {"o1", "oc"}
        /\ t.side = "SHORT" \/ t.intent = "OPEN" }

InitStore ==
    /\ \E n \in 1..MaxExecs : \E s \in [1..n -> StorePool] :
          files = [i \in 1..n |-> << [s[i] EXCEPT !.trade_id = i] >>]
    /\ trades = <<>>
    /\ pc = "idle"
    /\ NoBuild
    /\ runs = <<>>
    /\ db = EmptyDb
    /\ log = <<>>
    /\ csv_rows = <<>>
    /\ NoRetry /\ NoCycle /\ NoPositions
    /\ symbol = <<>>
    /\ result = <<>>

NextStore == RunLoad \/ RunBuild \/ RunPersist

SpecStore == InitStore /\ [][NextStore]_vars

(***************************************************************************)
(* The loader on raw files: up to MaxRows rows in all, spread in order     *)
(* over NumFiles files, each row with its own trade id.                    *)
(***************************************************************************)
load_csv_trades(paths) ==
    load_trades([k \in DOMAIN paths |-> iter_trades_from_csv(paths[k])])

BaseRow ==
    [ symbol |-> <<"S", "S", "S", "2", "4", "0", "1", "1", "9", "P",
                   "0", "0", "1", "0", "0", "0", "0", "0">>,
      instrument |-> NoValue,
      action |-> <<"S", "e", "l", "l", " ", "t", "o", " ", "O", "p", "e", "n">>,
      quantity |-> <<"1">>,
      price |-> <<"1", ".", "5", "0">>,
      fees |-> <<NoValue, NoValue, NoValue, NoValue>>,
      order_id |-> "o1",
      trade_id |-> 0,
      date |-> <<"2", "0", "2", "4", "-", "0", "1", "-", "1", "9">>,
      time |-> NoValue ]

\* A valid row of the day before, in another date format, its quantity
\* signed and with a thousands separator.
EarlierRow ==
    [BaseRow EXCEPT
        !.action = <<"B", "u", "y", " ", "t", "o", " ", "C", "l", "o", "s", "e">>,
        !.quantity = <<"-", "1", ",", "0", "0", "0">>,
        !.date = <<"0", "1", "/", "1", "8", "/", "2", "4">>,
        !.time = <<"0", "9", ":", "3", "0">> ]

RowPool ==
    { BaseRow, EarlierRow,
      [BaseRow EXCEPT !.symbol = <<"S", "S", "S">>],
      [BaseRow EXCEPT !.date = <<"1", "9", ".", "0", "1", ".", "2", "0", "2", "4">>],
      [BaseRow EXCEPT !.time = <<"9", "h">>],
      [BaseRow EXCEPT !.action = <<"E", "x", "p", "i", "r", "e", "d">>],
      [BaseRow EXCEPT !.quantity = <<"x">>],
      [BaseRow EXCEPT !.quantity = <<"2", ".", "9">>] }

InitLoad ==
    /\ \E n \in 0..MaxRows : \E s \in [1..n -> RowPool] : \E f \in [1..n -> 1..NumFiles] :
          /\ \A i \in 1..(n - 1) : f[i] <= f[i + 1]
          /\ csv_rows = [k \in 1..NumFiles |->
                SelectSeq([i \in 1..n |-> [s[i] EXCEPT !.trade_id = i]],
                          LAMBDA row : f[row.trade_id] = k)]
    /\ pc = "load"
    /\ trades = <<>>
    /\ NoBuild
    /\ NoStore
    /\ NoRetry /\ NoCycle /\ NoPositions
    /\ symbol = <<>>
    /\ result = <<>>

LoadCsv ==
    /\ pc = "load"
    /\ trades' = load_csv_trades(csv_rows)
    /\ pc' = "loaded"
    /\ UNCHANGED <<buildvars, storevars, csv_rows, retryvars, cyclevars, posvars, symbol, result>>

NextLoad == LoadCsv

SpecLoad == InitLoad /\ [][NextLoad]_vars

\* What one run over the given files writes into an empty store.
FreshIngest(paths) ==
    LET env == build_positions(load_trades(paths))
    IN  IF load_trades(paths) = <<>> THEN EmptyDb
        ELSE persist(EmptyDb, env.strategies, env.fill_records)

(***************************************************************************)
(* Properties of build_positions (specification Spec).                    *)
(***************************************************************************)
Legs == UNION { Range(strategies[sid].legs) : sid \in DOMAIN strategies }

AfterOpening == pc \in {"close", "sort", "built"}

AllLegsClosed(strategy) ==
    \A l \in DOMAIN strategy.legs : strategy.legs[l].remaining_quantity = 0

\* The action of a fill that closes a leg of the given side (determine_side).
ClosingAction(side) == IF side = "SHORT" THEN "BUY" ELSE "SELL"

ClosingFillsOf(leg) ==
    SelectSeq(fill_records, LAMBDA f :
        f.leg_id = leg.id /\ f.action = ClosingAction(leg.side))

FillQtys(fills) == [i \in DOMAIN fills |-> fills[i].qty]

\* The closing trades the closing loop has already gone through.
ProcessedCloses == IF AfterOpening THEN 1..(close_idx - 1) ELSE {}

HasFill(trade) == \E i \in DOMAIN fill_records : fill_records[i].id = trade.trade_id

\* A closing trade is an orphan when its key has no leg, or only legs with
\* remaining_quantity = 0.
IsOrphan(trade) ==
    \/ LookupKey(trade) \notin DOMAIN open_leg_lookup
    \/ \A i \in DOMAIN open_leg_lookup[LookupKey(trade)] :
          LegOf(Env, open_leg_lookup[LookupKey(trade)][i]).remaining_quantity = 0

\* C1: in every state build_positions goes through, every leg has
\* 0 <= remaining_quantity <= open_quantity.
C1_RemainingWithinOpen ==
    \A leg \in Legs :
        0 <= leg.remaining_quantity /\ leg.remaining_quantity <= leg.open_quantity

\* A run ends with a leg at each end of the range: one closed down to 0
\* beside one still at its open_quantity.
C1_Witness ==
    /\ pc = "built"
    /\ \E leg \in Legs : leg.remaining_quantity = 0 /\ leg.open_quantity > 0
    /\ \E leg \in Legs : leg.remaining_quantity = leg.open_quantity

\* C2: after the opening phase and after every closing trade, a strategy is
\* CLOSED if and only if every leg it owns has remaining_quantity = 0.
C2_ClosedIffAllLegsClosed ==
    AfterOpening =>
        \A sid \in DOMAIN strategies :
            strategies[sid].status = "CLOSED" <=> AllLegsClosed(strategies[sid])

\* A run ends with one strategy CLOSED and another, of the same contract,
\* not CLOSED.
C2_Witness ==
    /\ pc = "built"
    /\ \E sid \in DOMAIN strategies : \E sid2 \in DOMAIN strategies :
          /\ strategies[sid].status = "CLOSED"
          /\ strategies[sid2].status # "CLOSED"
          /\ \E l \in DOMAIN strategies[sid].legs : \E l2 \in DOMAIN strategies[sid2].legs :
                /\ l[2] = l2[2] /\ l[3] = l2[3] /\ l[4] = l2[4]

\* C3 as claimed: a strategy is ADJUSTED if and only if at least one but not
\* all of its legs are fully closed.
C3_AdjustedIffSomeLegFullyClosed ==
    AfterOpening =>
        \A sid \in DOMAIN strategies :
            strategies[sid].status = "ADJUSTED" <=>
                /\ \E l \in DOMAIN strategies[sid].legs :
                      strategies[sid].legs[l].remaining_quantity = 0
                /\ ~AllLegsClosed(strategies[sid])

\* C3 as amended: a strategy is ADJUSTED if and only if at least one of its
\* legs has been closed in part or in full (remaining_quantity differs from
\* open_quantity) and not all of its legs are fully closed.
C3_AdjustedIffTouchedNotAllClosed ==
    AfterOpening =>
        \A sid \in DOMAIN strategies :
            strategies[sid].status = "ADJUSTED" <=>
                /\ \E l \in DOMAIN strategies[sid].legs :
                      strategies[sid].legs[l].remaining_quantity #
                          strategies[sid].legs[l].open_quantity
                /\ ~AllLegsClosed(strategies[sid])

\* An ADJUSTED strategy none of whose legs is fully closed.
C3_Witness ==
    /\ pc = "built"
    /\ \E sid \in DOMAIN strategies :
          /\ strategies[sid].status = "ADJUSTED"
          /\ \A l \in DOMAIN strategies[sid].legs :
                strategies[sid].legs[l].remaining_quantity > 0

\* C4: for every leg, open_quantity - remaining_quantity is the sum of the
\* qty of the closing FillRecords whose leg_id is that leg.
C4_QuantityConservation ==
    \A leg \in Legs :
        leg.open_quantity - leg.remaining_quantity =
            SumSeq(FillQtys(ClosingFillsOf(leg)))

\* A run ends with a leg opened by two trades and closed in part by one fill.
C4_Witness ==
    /\ pc = "built"
    /\ \E leg \in Legs :
          /\ Len(ClosingFillsOf(leg)) = 1
          /\ leg.open_quantity = 2
          /\ leg.remaining_quantity = 1

\* C5: when two or more legs share the key of a closing trade, the trade is
\* applied to the leg with remaining_quantity > 0 whose opened_at is earliest.
C5_FifoEarliestOpened ==
    [][ ( /\ pc = "close"
          /\ Len(fill_records') = Len(fill_records) + 1 )
        => LET key == LookupKey(CurrentClose)
               applied == fill_records'[Len(fill_records')].leg_id
           IN  \A i \in DOMAIN open_leg_lookup[key] :
                   LegOf(Env, open_leg_lookup[key][i]).remaining_quantity > 0
                   => LegOf(Env, applied).opened_at <=
                          LegOf(Env, open_leg_lookup[key][i]).opened_at ]_vars

\* C9: an orphan close appends no FillRecord, changes no leg, no strategy and
\* no index entry, and the closing loop moves on to the next closing trade.
C9_OrphanCloseSkipped ==
    [][ (pc = "close" /\ IsOrphan(CurrentClose))
        => /\ fill_records' = fill_records
           /\ strategies' = strategies
           /\ open_leg_lookup' = open_leg_lookup
           /\ close_idx' = close_idx + 1
           /\ pc' = IF close_idx < Len(closing) THEN "close" ELSE "sort" ]_vars

\* An orphan close was skipped and a later closing trade was applied.
C9_Witness ==
    /\ pc = "built"
    /\ \E k \in ProcessedCloses : \E k2 \in ProcessedCloses :
          /\ k < k2
          /\ ~HasFill(closing[k])
          /\ HasFill(closing[k2])

\* C10: a closing trade larger than the matched leg's remaining_quantity is
\* applied with min(trade.quantity, leg.remaining_quantity): the leg ends at
\* 0, the FillRecord carries the trimmed quantity, the loop goes on.
C10_OverfillTrimmed ==
    [][ (pc = "close" /\ ~IsOrphan(CurrentClose))
        => LET leg == LegOf(Env, MatchLeg(Env, CurrentClose))
               fill == fill_records'[Len(fill_records')]
               after == strategies'[leg.strategy_id].legs[leg.id]
               applied == IF CurrentClose.quantity < leg.remaining_quantity
                          THEN CurrentClose.quantity ELSE leg.remaining_quantity
           IN  /\ Len(fill_records') = Len(fill_records) + 1
               /\ fill.id = CurrentClose.trade_id
               /\ fill.leg_id = leg.id
               /\ fill.qty = applied
               /\ after.remaining_quantity = leg.remaining_quantity - applied
               /\ after.remaining_quantity >= 0
               /\ (CurrentClose.quantity > leg.remaining_quantity
                   => after.remaining_quantity = 0 /\ fill.qty < CurrentClose.quantity)
               /\ close_idx' = close_idx + 1 ]_vars

\* A closing trade was trimmed: its fill carries less than the trade asked
\* for and its leg is at 0.
C10_Witness ==
    \E k \in ProcessedCloses : \E i \in DOMAIN fill_records :
        /\ fill_records[i].id = closing[k].trade_id
        /\ fill_records[i].qty < closing[k].quantity
        /\ LegOf(Env, fill_records[i].leg_id).remaining_quantity = 0


(***************************************************************************)
(* Properties of whole ingestion runs (specification SpecIngest).          *)
(***************************************************************************)
Reverse(seq) == [i \in 1..Len(seq) |-> seq[Len(seq) + 1 - i]]

RECURSIVE SumQty(_)
SumQty(rows) ==
    IF rows = {} THEN 0
    ELSE LET r == CHOOSE x \in rows : TRUE IN r.qty + SumQty(rows \ {r})

\* The first run has ended and has written what it assembled.
FirstRunPersisted ==
    /\ pc = "done"
    /\ Len(runs) = 1
    /\ ~ThisRun.dry_run
    /\ ThisRun.found # {}
    /\ trades # <<>>

\* Some execution (same trade_id and order_id) is in two files of the run.
DuplicateExecution(run) ==
    \E i \in run.found : \E j \in run.found \ {i} :
        \E a \in DOMAIN files[i] : \E b \in DOMAIN files[j] :
            /\ files[i][a].trade_id = files[j][b].trade_id
            /\ files[i][a].order_id = files[j][b].order_id

\* C6: a run writes the same strategies, legs and fills rows whatever the
\* order in which its files are supplied.
C6_FileOrderIrrelevant ==
    FirstRunPersisted => db = FreshIngest(Reverse(FilesOf(ThisRun)))

\* C7: an execution present in several files of one run is counted once: a
\* leg's open quantity is the sum of the qty of the distinct opening fills
\* recorded for it, and what was closed on it the sum of the closing ones.
C7_DuplicateCountedOnce ==
    (FirstRunPersisted /\ DuplicateExecution(ThisRun)) =>
        \A leg \in Legs :
            LET rows == { r \in Range(db.fills) : r.leg_id = leg.id }
            IN  /\ leg.open_quantity =
                      SumQty({ r \in rows : r.action # ClosingAction(leg.side) })
                /\ leg.open_quantity - leg.remaining_quantity =
                      SumQty({ r \in rows : r.action = ClosingAction(leg.side) })

\* C8: a second run without reset over the files of the first run and more
\* leaves in the store exactly the rows one run over the second input writes
\* into an empty store.
C8_RerunIsFullOverwrite ==
    ( /\ pc = "done"
      /\ Len(runs) = 2
      /\ ~runs[1].dry_run
      /\ ~runs[2].dry_run
      /\ ~runs[2].reset
      /\ runs[1].found \subseteq runs[2].found )
    => db = FreshIngest(FilesOf(runs[2]))

(***************************************************************************)
(* Properties of the strategy classifier (specification SpecClassify).     *)
(***************************************************************************)
PairsOf(group) == { <<group[i].call_put, group[i].side>> : i \in DOMAIN group }

\* The classification the decision table gives a set of (call_put, side)
\* pairs.
ClassOfPairs(P) ==
    LET calls == { p \in P : p[1] = "CALL" }
        puts == { p \in P : p[1] = "PUT" }
    IN  IF Cardinality(calls) = 2 /\ Cardinality(puts) = 2 THEN "IC"
        ELSE IF calls # {} /\ puts # {} THEN "Strangle"
        ELSE IF Cardinality(puts) = 2 THEN "PCS"
        ELSE IF Cardinality(calls) = 2 THEN "CCS"
        ELSE IF calls # {} \/ puts # {} THEN "Strangle"
        ELSE "Unknown"

\* C11: choose_strategy_type is a function of the set of (call_put, side)
\* pairs of the order's opening trades alone: IC for all four pairs,
\* Strangle for both option types short of four pairs, PCS / CCS for one
\* type with both sides, Strangle for one type with one side, Unknown for
\* no pair.
C11_ClassifiedByPairSet ==
    pc = "classified" => result = ClassOfPairs(PairsOf(trades))

\* A put credit spread is recognised from three trades, the long leg first
\* and one pair repeated.
C11_Witness ==
    /\ pc = "classified"
    /\ result = "PCS"
    /\ Len(trades) = 3
    /\ trades[1].side = "LONG"

(***************************************************************************)
(* Properties of the opening loop's strategy ids (specification Spec).     *)
(***************************************************************************)
OpenTrades == { trades[i] : i \in { j \in DOMAIN trades : trades[j].intent = "OPEN" } }

\* The strategy an opening trade went to: the strategy of the leg its fill
\* names.
StrategyOfTrade(t) ==
    LET i == CHOOSE j \in DOMAIN fill_records : fill_records[j].id = t.trade_id
    IN  fill_records[i].leg_id[1]

OrderMinTs(oid) == MinOf({ t.timestamp : t \in { u \in OpenTrades : u.order_id = oid } })

\* C12: the groups are walked in ascending order of their minimum timestamp;
\* once the opening loop is over there is one strategy per opening order_id,
\* two opening trades share a strategy exactly when they share the order,
\* and the ids of one base are base, base_02, base_03, ... without a gap, a
\* later suffix never going to an order that starts earlier.
C12_OneStrategyPerOrder ==
    AfterOpening =>
        /\ \A k \in 1..(Len(order_groups) - 1) :
              GroupMinTs(order_groups[k]) <= GroupMinTs(order_groups[k + 1])
        /\ Cardinality(DOMAIN strategies) = Cardinality({ t.order_id : t \in OpenTrades })
        /\ \A t \in OpenTrades : \A u \in OpenTrades :
              (t.order_id = u.order_id) <=> (StrategyOfTrade(t) = StrategyOfTrade(u))
        /\ \A t \in OpenTrades :
              strategies[StrategyOfTrade(t)].opened_at = OrderMinTs(t.order_id)
        /\ \A sid \in DOMAIN strategies : \A m \in 1..(sid[4] - 1) :
              /\ <<sid[1], sid[2], sid[3], m>> \in DOMAIN strategies
              /\ strategies[<<sid[1], sid[2], sid[3], m>>].opened_at <= strategies[sid].opened_at

\* A run ends with the base id on an earlier order and _02 on a later order
\* of the same type, underlying and expiration.
C12_Witness ==
    /\ pc = "built"
    /\ \E sid \in DOMAIN strategies :
          /\ sid[4] = 2
          /\ strategies[<<sid[1], sid[2], sid[3], 1>>].opened_at < strategies[sid].opened_at

(***************************************************************************)
(* Properties of parse_occ_symbol (specification SpecParse).               *)
(***************************************************************************)
\* ROOT + yymmdd + C/P + 8-digit strike*1000
OccSymbol(root, date, call_put, strike) ==
    root \o DateText(date) \o <<IF call_put = "CALL" THEN "C" ELSE "P">> \o ZeroPad(strike, 8)

\* C13: the parse of a symbol built from a non-empty root, a valid date, a
\* C/P flag and a strike returns exactly these four.
C13_SymbolRoundTrip ==
    pc = "parsed" =>
        \A root \in Roots \ {<<>>}, date \in ExpirationDates,
           call_put \in {"CALL", "PUT"}, strike \in Strikes :
            symbol = OccSymbol(root, date, call_put, strike)
                => result = Parsed(root, date, call_put, strike)

\* The offsets (from 1) other than the first where six digits in a row start.
DigitRunsPastStart(str) ==
    { pos \in 2..(Len(str) - 5) : IsDigitString(SubSeq(str, pos, pos + 5)) }

\* The characters that follow the flag, the flag being the character after
\* the first run of six digits past the start.
AfterFlag(str) ==
    LET idx == MinOf(DigitRunsPastStart(str))
    IN  SubSeq(str, idx + 7, Len(str))

\* C14: no result is returned for a normalized string under 16 characters,
\* without a run of six digits past its first character, or with fewer than
\* seven digits after the flag.
C14_MalformedRejected ==
    pc = "parsed" =>
        LET cleaned == normalize_symbol(symbol)
        IN  ( \/ Len(cleaned) < 16
              \/ DigitRunsPastStart(cleaned) = {}
              \/ Len(AfterFlag(cleaned)) < 7 )
            => result.error # ""

\* C15: a result is returned only when the character after the six
\* expiration digits is C or P, CALL for C and PUT for P.
C15_FlagIsCOrP ==
    pc = "parsed" /\ result.error = "" =>
        LET cleaned == normalize_symbol(symbol)
            flag == cleaned[Len(result.root) + 7]
        IN  /\ flag \in {"C", "P"}
            /\ result.call_put = (IF flag = "C" THEN "CALL" ELSE "PUT")

(***************************************************************************)
(* Properties of the loader (specification SpecLoad).                      *)
(***************************************************************************)
AllRows == Concat(csv_rows)

\* A row normalises unless one of its fields fails: the conditions are
\* those of the claim, each read off the field's own parser.
SymbolParses(row) == row.symbol # NoValue /\ parse_occ_symbol(row.symbol).error = ""

TimestampParses(row) == parse_timestamp(row) # NoTime

ActionParses(row) == row.action # NoValue /\ parse_action(row.action).action # ""

QuantityParses(row) == row.quantity # NoValue /\ parse_quantity(row.quantity).ok

IsOptionRow(row) ==
    row.instrument = NoValue
        \/ IsSubstring(<<"o", "p", "t", "i", "o", "n">>, Lower(row.instrument))

RowIsValid(row) ==
    /\ SymbolParses(row) /\ TimestampParses(row) /\ ActionParses(row)
    /\ QuantityParses(row) /\ parse_quantity(row.quantity).quantity # 0
    /\ IsOptionRow(row)

TradesOfRow(row) == { i \in DOMAIN trades : trades[i].trade_id = row.trade_id }

\* C16: load_trades emits one trade for every row that normalises, whatever
\* rows fail before or after it in its file or in other files, nothing for a
\* row that fails, and returns the trades in ascending order of timestamp.
C16_BadRowsSkippedOthersKept ==
    pc = "loaded" =>
        /\ \A k \in DOMAIN AllRows :
              Cardinality(TradesOfRow(AllRows[k])) = (IF RowIsValid(AllRows[k]) THEN 1 ELSE 0)
        /\ \A k \in DOMAIN AllRows : \A i \in TradesOfRow(AllRows[k]) :
              /\ trades[i].timestamp = parse_timestamp(AllRows[k])
              /\ trades[i].quantity = parse_quantity(AllRows[k].quantity).quantity
              /\ trades[i].action = parse_action(AllRows[k].action).action
        /\ Len(trades) <= Len(AllRows)
        /\ IsSortedByTs(trades)

\* A valid row, then a row that fails with an exception, in the first file;
\* a valid row of an earlier time in the second: both are emitted, the
\* second file's first.
C16_Witness ==
    /\ pc = "loaded"
    /\ Len(csv_rows[1]) = 2
    /\ Len(csv_rows[2]) = 1
    /\ NormalizeRow(csv_rows[1][2]).kind = "warning"
    /\ Len(trades) = 2
    /\ trades[1].trade_id = csv_rows[2][1].trade_id
    /\ trades[2].trade_id = csv_rows[1][1].trade_id
    /\ trades[1].timestamp < trades[2].timestamp

\* abs(x) rounded to the nearest integer (half to even), for the decimal
\* text of a quantity.
NearestAbs(value) ==
    LET d == DecimalOf(Strip(Without(value, ",")))
        first == IF d.frac = <<>> THEN 0 ELSE DigitVal[d.frac[1]]
        more == \E i \in 2..Len(d.frac) : d.frac[i] # "0"
    IN  IF first > 5 \/ (first = 5 /\ more) THEN d.whole + 1
        ELSE IF first = 5 THEN (IF d.whole % 2 = 0 THEN d.whole ELSE d.whole + 1)
        ELSE d.whole

\* C17: a row with a numeric quantity and nothing else wrong is emitted with
\* the quantity abs(number) rounded to the nearest integer, and skipped when
\* that is 0.
C17_QuantityRoundedToNearest ==
    pc = "loaded" =>
        \A k \in DOMAIN AllRows :
            LET row == AllRows[k]
            IN  ( /\ SymbolParses(row) /\ TimestampParses(row) /\ ActionParses(row)
                  /\ QuantityParses(row) /\ IsOptionRow(row) )
                => IF NearestAbs(row.quantity) = 0
                   THEN TradesOfRow(row) = {}
                   ELSE \E i \in TradesOfRow(row) :
                            trades[i].quantity = NearestAbs(row.quantity)

(***************************************************************************)
(* Properties of main() on the store (specification SpecStore).           *)
(***************************************************************************)
ThisRunTrades == load_trades(FilesOf(ThisRun))

\* C18: a dry run loads and reconstructs its trades and executes nothing on
\* the store: no connect, schema, delete or upsert statement, and the three
\* tables are the ones the run started from.
C18_DryRunLeavesStore ==
    (runs # <<>> /\ ThisRun.dry_run) =>
        /\ log = <<>>
        /\ db = ThisRun.before
        /\ (pc = "done" /\ ThisRunTrades # <<>>) =>
              /\ trades = ThisRunTrades
              /\ strategies = build_positions(ThisRunTrades).strategies
              /\ fill_records = build_positions(ThisRunTrades).fill_records

\* A finished dry run over a filled store that reconstructed a strategy the
\* store does not hold.
C18_Witness ==
    /\ pc = "done"
    /\ runs # <<>>
    /\ ThisRun.dry_run
    /\ ThisRunTrades # <<>>
    /\ db # EmptyDb
    /\ \E sid \in DOMAIN strategies : sid \notin DOMAIN db.strategies

Tables == {"strategies", "legs", "fills"}

\* The positions in the log of the statements of a kind on a table.
StatementsAt(op, table) ==
    { i \in DOMAIN log : log[i].op = op /\ log[i].table = table }

ReachedStore == pc = "done" /\ log # <<>>

\* C19: a run with reset that reaches the store deletes from fills, legs and
\* strategies after the schema statements and before its first upsert, and
\* ends with exactly the rows it produced; a run without reset executes no
\* delete and every row it found is still there under its id, changed only
\* by an upsert of that id.
C19_ResetClearsFirst ==
    runs # <<>> =>
        /\ (ThisRun.reset /\ ReachedStore) =>
              /\ \A table \in Tables :
                    \E d \in StatementsAt("delete", table) :
                        /\ \E c \in StatementsAt("schema", "") : c < d
                        /\ \A other \in Tables :
                              \A u \in StatementsAt("upsert", other) : d < u
              /\ \A table \in Tables :
                    \A id \in DOMAIN db[table] :
                        \E u \in StatementsAt("upsert", table) : log[u].row = db[table][id]
              /\ db = FreshIngest(FilesOf(ThisRun))
        /\ ~ThisRun.reset =>
              \A table \in Tables :
                  /\ StatementsAt("delete", table) = {}
                  /\ \A id \in DOMAIN ThisRun.before[table] :
                        /\ id \in DOMAIN db[table]
                        /\ db[table][id] # ThisRun.before[table][id]
                              => \E u \in StatementsAt("upsert", table) :
                                     log[u].row.id = id /\ log[u].row = db[table][id]

\* A run with reset has written its rows and a strategy the store held
\* before the run is gone.
C19_Witness ==
    /\ runs # <<>>
    /\ ThisRun.reset
    /\ ReachedStore
    /\ db # EmptyDb
    /\ \E id \in DOMAIN ThisRun.before.strategies : id \notin DOMAIN db.strategies

\* The ids of the rows upserted into a table by the first k statements.
WrittenBy(k, table) ==
    { log[i].row.id : i \in { j \in StatementsAt("upsert", table) : j <= k } }

\* C20: in the statements of a run every leg upsert comes after the upsert
\* of its strategy and every fill upsert after all leg upserts, and at each
\* point every leg written so far has its strategy written and every fill
\* written so far has its leg written, by this run.
C20_ParentsWrittenFirst ==
    ReachedStore =>
        /\ \A l \in StatementsAt("upsert", "legs") :
              /\ \E p \in StatementsAt("upsert", "strategies") :
                    log[p].row.id = log[l].row.strategy_id
              /\ \A p \in StatementsAt("upsert", "strategies") :
                    log[p].row.id = log[l].row.strategy_id => p < l
        /\ \A f \in StatementsAt("upsert", "fills") :
              \A l \in StatementsAt("upsert", "legs") : l < f
        /\ \A k \in DOMAIN log :
              /\ \A i \in StatementsAt("upsert", "legs") :
                    i <= k => log[i].row.strategy_id \in WrittenBy(k, "strategies")
              /\ \A i \in StatementsAt("upsert", "fills") :
                    i <= k => log[i].row.leg_id \in WrittenBy(k, "legs")

\* A run wrote a strategy with two legs and at least two fills.
C20_Witness ==
    /\ ReachedStore
    /\ Cardinality(StatementsAt("upsert", "fills")) >= 2
    /\ \E l1, l2 \in StatementsAt("upsert", "legs") :
          l1 # l2 /\ log[l1].row.strategy_id = log[l2].row.strategy_id

(***************************************************************************)
(* call_with_retries (stratdeck/tools/retries.py).  fn is the environment: *)
(* each call of it returns or raises one of the exceptions of the pool;   *)
(* fn holds what the calls so far did.  An attribute of an exception is   *)
(* the set of its integer values: empty when it is absent or no int.      *)
(***************************************************************************)
MaxRetries == 2
MaxBackoff == 2

\* The default retry_statuses.
RetryStatuses == <<429, 500, 502, 503, 504>>

NoResponse == [ present |-> FALSE, status_code |-> {}, status |-> {} ]

Response(status_code, status) ==
    [ present |-> TRUE, status_code |-> status_code, status |-> status ]

Exc(type, msg, status_code, status, response) ==
    [ type |-> type, msg |-> msg, status_code |-> status_code, status |-> status,
      response |-> response ]

ExceptionPool ==
    { Exc("RateLimitError", <<"b", "o", "o", "m">>, {429}, {}, NoResponse),
      Exc("HTTPError", <<"b", "o", "o", "m">>, {}, {}, Response({}, {503})),
      Exc("HTTPError", <<"b", "o", "o", "m">>, {}, {}, Response({404}, {})),
      Exc("RuntimeError", <<"R", "a", "t", "e", " ", "L", "i", "m", "i", "t">>, {}, {}, NoResponse),
      Exc("TimeoutError", <<>>, {}, {}, NoResponse),
      Exc("ValueError", <<"b", "o", "o", "m">>, {}, {400}, NoResponse) }

Returns(value) == [ raises |-> FALSE, value |-> value, exc |-> Exc("", <<>>, {}, {}, NoResponse) ]

Raises(exc) == [ raises |-> TRUE, value |-> "", exc |-> exc ]

Outcomes == { Returns("data") } \cup { Raises(exc) : exc \in ExceptionPool }

\* The first int among exc.status_code, exc.status, exc.response.status_code
\* and exc.response.status; None (the empty set) when there is none.
_status_from_exception(exc) ==
    IF exc.status_code # {} THEN exc.status_code
    ELSE IF exc.status # {} THEN exc.status
    ELSE IF ~exc.response.present THEN {}
    ELSE IF exc.response.status_code # {} THEN exc.response.status_code
    ELSE exc.response.status

_is_retryable_error(exc, retry_statuses) ==
    LET status == _status_from_exception(exc)
        msg == Lower(exc.msg)
    IN  \/ status # {} /\ status \subseteq Range(retry_statuses)
        \/ IsSubstring(<<"t", "o", "o", " ", "m", "a", "n", "y", " ", "r", "e", "q", "u", "e", "s", "t", "s">>, msg)
        \/ IsSubstring(<<"r", "a", "t", "e", " ", "l", "i", "m", "i", "t">>, msg)
        \/ IsSubstring(<<"4", "2", "9">>, msg)
        \/ exc.type \in {"ConnectionError", "TimeoutError"}

InitRetry ==
    /\ pc = "call"
    /\ retries \in 0..MaxRetries
    /\ backoff \in 1..MaxBackoff
    /\ delay = backoff
    /\ attempt = 0
    /\ fn = <<>>
    /\ fn_calls = 0
    /\ sleeps = <<>>
    /\ result = <<>>
    /\ trades = <<>>
    /\ NoBuild
    /\ NoStore
    /\ NoCycle /\ NoPositions
    /\ csv_rows = <<>>
    /\ symbol = <<>>

\* Mutant of Exhausted: the budget is compared with >=.
ExhaustedEarly(attempts, budget) == attempts >= budget

\* "if attempt > retries"
Exhausted(attempts, budget) == attempts > budget

\* One pass of the while loop: fn is called; its value is returned, or its
\* exception is raised again (not retryable, or attempt > retries), or the
\* loop sleeps for delay, doubles it and goes round.
Call ==
    /\ pc = "call"
    /\ \E out \in Outcomes :
          /\ fn' = Append(fn, out)
          /\ fn_calls' = fn_calls + 1
          /\ IF ~out.raises
             THEN /\ pc' = "returned"
                  /\ result' = out
                  /\ UNCHANGED <<attempt, delay, sleeps>>
             ELSE /\ attempt' = attempt + 1
                  /\ IF ~_is_retryable_error(out.exc, RetryStatuses) \/ Exhausted(attempt + 1, retries)
                     THEN /\ pc' = "raised"
                          /\ result' = out
                          /\ UNCHANGED <<delay, sleeps>>
                     ELSE /\ sleeps' = Append(sleeps, delay)
                          /\ delay' = delay * 2
                          /\ pc' = "call"
                          /\ UNCHANGED result
    /\ UNCHANGED <<trades, buildvars, storevars, csv_rows, cyclevars, posvars, symbol,
                   retries, backoff>>

NextRetry == Call

SpecRetry == InitRetry /\ [][NextRetry]_vars

(***************************************************************************)
(* Properties of call_with_retries (specification SpecRetry).             *)
(***************************************************************************)
Retryable(out) == out.raises /\ _is_retryable_error(out.exc, RetryStatuses)

\* C21: fn is called at most retries + 1 times; the call returns the value
\* of the first call of fn that returns; an exception that is not retryable
\* is raised again by the call it came from; a retryable one is followed by
\* a sleep (backoff, then twice the one before) and another call, until
\* retries + 1 calls have failed, and then the last one is raised again.
C21_BoundedRetries ==
    pc \in {"call", "returned", "raised"} =>
        /\ fn_calls = Len(fn)
        /\ fn_calls <= retries + 1
        /\ \A k \in 1..(Len(fn) - 1) : Retryable(fn[k])
        /\ pc = "call" => fn_calls <= retries /\ \A k \in DOMAIN fn : Retryable(fn[k])
        /\ pc = "returned" => ~fn[Len(fn)].raises /\ result = fn[Len(fn)]
        /\ pc = "raised" =>
              /\ fn[Len(fn)].raises
              /\ result = fn[Len(fn)]
              /\ Retryable(fn[Len(fn)]) => fn_calls = retries + 1
        /\ Len(sleeps) = (IF pc = "call" THEN fn_calls ELSE fn_calls - 1)
        /\ \A k \in DOMAIN sleeps : sleeps[k] = backoff * 2 ^ (k - 1)

\* Three retryable failures with retries = 2: two sleeps, then the third
\* exception is raised.
C21_Witness ==
    /\ pc = "raised"
    /\ retries = 2
    /\ fn_calls = 3
    /\ Retryable(fn[3])
    /\ Len(sleeps) = 2
    /\ sleeps[2] = 2 * sleeps[1]

(***************************************************************************)
(* run_open_cycle (stratdeck/orchestrator.py).  ideas is vetted_pairs:     *)
(* each generated idea with the vetting vet_one gave it.                   *)
(***************************************************************************)
MaxIdeas == 3
MaxOpen == 2

Verdicts == {"ACCEPT", "BORDERLINE", "REJECT"}

Scores == {70, 90}

MinScores == {0, 80}

\* seq[:limit] for limit >= 0
Prefix(seq, limit) == SubSeq(seq, 1, IF limit < Len(seq) THEN limit ELSE Len(seq))

is_eligible(vetting, floor) == vetting.verdict = "ACCEPT" /\ vetting.score >= floor

\* Mutant of select_trades: the eligible pairs are sorted by ascending score.
select_trades_ascending(vetted, limit, floor) ==
    LET eligible == SelectSeq(vetted, LAMBDA pair : is_eligible(pair, floor))
        sorted == StableSort(eligible, [i \in DOMAIN eligible |-> eligible[i].score])
    IN  Prefix(sorted, limit)

\* eligible.sort(key=score, reverse=True) keeps equal scores in list order;
\* eligible[:max_trades].
select_trades(vetted, limit, floor) ==
    LET eligible == SelectSeq(vetted, LAMBDA pair : is_eligible(pair, floor))
        sorted == StableSort(eligible, [i \in DOMAIN eligible |-> 0 - eligible[i].score])
    IN  Prefix(sorted, limit)

InitCycle ==
    /\ pc = "open"
    /\ \E n \in 0..MaxIdeas : \E v \in [1..n -> Verdicts \X Scores] :
          ideas = [i \in 1..n |-> [ idea |-> i, verdict |-> v[i][1], score |-> v[i][2] ]]
    /\ max_trades \in 0..MaxOpen
    /\ min_score \in MinScores
    /\ open_calls = <<>>
    /\ result = <<>>
    /\ trades = <<>>
    /\ NoBuild
    /\ NoStore
    /\ NoRetry /\ NoPositions
    /\ csv_rows = <<>>
    /\ symbol = <<>>

\* One pass of "for idea, vet in selected_pairs": open_from_idea(idea, qty).
OpenFromIdea ==
    /\ pc = "open"
    /\ LET selected_pairs == select_trades(ideas, max_trades, min_score)
       IN  /\ Len(open_calls) < Len(selected_pairs)
           /\ open_calls' = Append(open_calls, selected_pairs[Len(open_calls) + 1].idea)
    /\ UNCHANGED <<pc, result, ideas, max_trades, min_score, trades, buildvars, storevars,
                   csv_rows, retryvars, posvars, symbol>>

\* The loop is over: the OpenCycleResult is returned.
ReturnCycle ==
    /\ pc = "open"
    /\ Len(open_calls) = Len(select_trades(ideas, max_trades, min_score))
    /\ result' = [ generated_count |-> Len(ideas),
                   eligible_count |->
                       Len(SelectSeq(ideas, LAMBDA pair : is_eligible(pair, min_score))),
                   opened |-> open_calls ]
    /\ pc' = "returned"
    /\ UNCHANGED <<cyclevars, trades, buildvars, storevars, csv_rows, retryvars, posvars,
                   symbol>>

NextCycle == OpenFromIdea \/ ReturnCycle

SpecCycle == InitCycle /\ [][NextCycle]_vars

(***************************************************************************)
(* Properties of run_open_cycle (specification SpecCycle).                *)
(***************************************************************************)
Eligible == { i \in DOMAIN ideas : ideas[i].verdict = "ACCEPT" /\ ideas[i].score >= min_score }

\* C22: when run_open_cycle returns, open_from_idea has been called once for
\* each of min(max_trades, number of eligible ideas) eligible ideas, none of
\* them outscored by an eligible idea left out, in descending order of score,
\* and for no other idea; generated_count is the number of ideas and
\* eligible_count the number of eligible ones.  Before that the calls made
\* are all for distinct eligible ideas.
C22_OpensBestEligible ==
    pc \in {"open", "returned"} =>
        /\ \A k \in DOMAIN open_calls : open_calls[k] \in Eligible
        /\ \A j, k \in DOMAIN open_calls : j < k =>
              /\ open_calls[j] # open_calls[k]
              /\ ideas[open_calls[j]].score >= ideas[open_calls[k]].score
        /\ Len(open_calls) <= max_trades
        /\ pc = "returned" =>
              /\ Len(open_calls) = (IF max_trades < Cardinality(Eligible)
                                    THEN max_trades ELSE Cardinality(Eligible))
              /\ \A i \in Eligible \ Range(open_calls) :
                    \A k \in DOMAIN open_calls : ideas[i].score <= ideas[open_calls[k]].score
              /\ result.generated_count = Len(ideas)
              /\ result.eligible_count = Cardinality(Eligible)
              /\ result.opened = open_calls

\* Three eligible ideas of rising score beside max_trades = 2: the two best
\* were opened, best first, the third was not.
C22_Witness ==
    /\ pc = "returned"
    /\ max_trades = 2
    /\ Len(open_calls) = 2
    /\ Cardinality(Eligible) = 3
    /\ open_calls[1] > open_calls[2]
    /\ ideas[open_calls[1]].score > ideas[open_calls[2]].score

(***************************************************************************)
(* The paper positions file (stratdeck/tools/positions.py) and the         *)
(* commands that close positions (stratdeck/cli.py).  Every command loads  *)
(* the file, works on the loaded list and, when it persists, writes the    *)
(* whole list back.  An optional field is the set of its values: empty     *)
(* for None.  The provider's quote, the clock and the exit decision are    *)
(* the environment.                                                        *)
(***************************************************************************)
MaxPositions == 2

PositionIds == 1..MaxPositions

\* An id no stored position has.
UnknownId == MaxPositions + 1

Nows == {1, 2}

Mids == {50}

Reasons == {"", "tester"}

Decisions ==
    { [ action |-> "exit", reason |-> "TARGET_PROFIT_HIT" ],
      [ action |-> "hold", reason |-> "HOLD" ] }

\* A position as add_position stores it.
PaperPosition(id) ==
    [ id |-> id, status |-> "open", qty |-> 1, entry_mid |-> 100,
      contract_multiplier |-> 100, closed_at |-> {}, exit_mid |-> {},
      exit_reason |-> "", realized_pl_total |-> {} ]

\* a or b or c, on strings
FirstTruthy(a, b, c) == IF a # "" THEN a ELSE IF b # "" THEN b ELSE c

\* PositionsStore.get: the index of the first position with the id, or none.
store_get(store, position_id) ==
    LET found == { i \in DOMAIN store : store[i].id = position_id }
    IN  IF found = {} THEN {} ELSE {MinOf(found)}

\* PositionsStore.upsert, with _persist.
store_upsert(store, position) ==
    LET found == store_get(store, position.id)
    IN  IF found = {} THEN Append(store, position)
        ELSE [store EXCEPT ![MinOf(found)] = position]

\* PositionsStore.get_open_positions: the indexes of the open positions.
get_open_positions(store) == { i \in DOMAIN store : store[i].status = "open" }

\* metrics.unrealized_pl_total of a position quoted at mid.
unrealized_pl_total(pos, mid) == (pos.entry_mid - mid) * pos.qty * pos.contract_multiplier

\* Mutant of IsExit: every decision counts as an exit.
IsExitAlways(decision) == TRUE

\* (decision.get("action") or "").lower() == "exit"
IsExit(decision) == decision.action = "exit"

Command(name, position_id, dry_run, exits, outcome) ==
    [ name |-> name, position_id |-> position_id, dry_run |-> dry_run,
      exits |-> exits, outcome |-> outcome ]

InitPositions ==
    /\ pc = "shell"
    /\ \E n \in 0..MaxPositions : positions = [i \in 1..n |-> PaperPosition(i)]
    /\ cmd = Command("", UnknownId, FALSE, {}, "")
    /\ result = <<>>
    /\ trades = <<>>
    /\ NoBuild
    /\ NoStore
    /\ NoRetry /\ NoCycle
    /\ csv_rows = <<>>
    /\ symbol = <<>>

\* stratdeck positions close --id ... [--reason ...] [--dry-run]
positions_close ==
    /\ pc = "shell"
    /\ \E position_id \in PositionIds \cup {UnknownId}, reason \in Reasons,
          dry_run \in BOOLEAN, now \in Nows, mid \in Mids, decision \in Decisions :
          LET found == store_get(positions, position_id)
          IN  IF found = {}
              THEN /\ positions' = positions
                   /\ cmd' = Command("close", position_id, dry_run, {}, "not found")
              ELSE LET pos == positions[MinOf(found)]
                       closed == [pos EXCEPT
                           !.status = "closed",
                           !.closed_at = {now},
                           !.exit_mid = {mid},
                           !.realized_pl_total = {unrealized_pl_total(pos, mid)},
                           !.exit_reason = FirstTruthy(reason, decision.reason, "manual")]
                   IN  /\ positions' = IF dry_run THEN positions
                                       ELSE store_upsert(positions, closed)
                       /\ cmd' = Command("close", position_id, dry_run, {}, "ok")
    /\ UNCHANGED <<pc, result, trades, buildvars, storevars, csv_rows, retryvars, cyclevars,
                   symbol>>

\* The store after the loop of positions_close_auto has dealt with the open
\* positions of the indexes todo, in list order.
RECURSIVE CloseEach(_, _, _, _, _)
CloseEach(store, todo, decisions, now, mid) ==
    IF todo = {} THEN store
    ELSE LET idx == MinOf(todo)
             pos == positions[idx]
             updated == [pos EXCEPT
                 !.status = "closed",
                 !.closed_at = {now},
                 !.exit_mid = {IF mid # 0 THEN mid ELSE pos.entry_mid},
                 !.realized_pl_total = {unrealized_pl_total(pos, mid)},
                 !.exit_reason = FirstTruthy(decisions[idx].reason, pos.exit_reason, "auto")]
         IN  CloseEach(IF IsExit(decisions[idx]) THEN store_upsert(store, updated) ELSE store,
                       todo \ {idx}, decisions, now, mid)

\* stratdeck positions close-auto [--dry-run]
positions_close_auto ==
    /\ pc = "shell"
    /\ \E dry_run \in BOOLEAN, now \in Nows, mid \in Mids :
       \E decisions \in [get_open_positions(positions) -> Decisions] :
          LET open_positions == get_open_positions(positions)
              exits == { positions[i].id :
                            i \in { j \in open_positions : decisions[j].action = "exit" } }
          IN  IF open_positions = {}
              THEN /\ positions' = positions
                   /\ cmd' = Command("close-auto", UnknownId, dry_run, {}, "none open")
              ELSE /\ positions' = IF dry_run THEN positions
                                    ELSE CloseEach(positions, open_positions, decisions, now, mid)
                   /\ cmd' = Command("close-auto", UnknownId, dry_run, exits, "ok")
    /\ UNCHANGED <<pc, result, trades, buildvars, storevars, csv_rows, retryvars, cyclevars,
                   symbol>>

\* tools.positions.close_position(position_id, exit_credit, exit_reason)
close_position ==
    /\ pc = "shell"
    /\ \E position_id \in PositionIds \cup {UnknownId}, exit_reason \in Reasons,
          now \in Nows, exit_credit \in Mids :
          LET found == store_get(positions, position_id)
          IN  IF found = {}
              THEN /\ positions' = positions
                   /\ cmd' = Command("close_position", position_id, FALSE, {}, "not found")
              ELSE IF positions[MinOf(found)].status = "closed"
              THEN /\ positions' = positions
                   /\ cmd' = Command("close_position", position_id, FALSE, {}, "already closed")
              ELSE LET pos == positions[MinOf(found)]
                       closed == [pos EXCEPT
                           !.status = "closed",
                           !.exit_mid = {exit_credit},
                           !.closed_at = {now},
                           !.realized_pl_total = {unrealized_pl_total(pos, exit_credit)},
                           !.exit_reason = FirstTruthy(exit_reason, pos.exit_reason, "manual")]
                   IN  /\ positions' = store_upsert(positions, closed)
                       /\ cmd' = Command("close_position", position_id, FALSE, {}, "ok")
    /\ UNCHANGED <<pc, result, trades, buildvars, storevars, csv_rows, retryvars, cyclevars,
                   symbol>>

NextPositions == positions_close \/ positions_close_auto \/ close_position

SpecPositions == InitPositions /\ [][NextPositions]_vars

(***************************************************************************)
(* Properties of the closing commands (specification SpecPositions).      *)
(***************************************************************************)
\* The step stores the position of index i as closed and changes no other
\* index of the list.
Closes(i) == positions'[i].status = "closed"

Keeps(i) == positions'[i] = positions[i]

\* C23: a step of 'positions close' or 'positions close-auto' with --dry-run
\* leaves the positions file as it was; without it 'close' stores status
\* closed for the position of the given id and changes no other one, and
\* 'close-auto' stores status closed for exactly the open positions whose
\* decision is exit and leaves the others, the held ones open, as they were.
C23_DryRunKeepsCloseStores ==
    [][ /\ DOMAIN positions' = DOMAIN positions
        /\ (cmd'.name \in {"close", "close-auto"} /\ cmd'.dry_run) => positions' = positions
        /\ (cmd'.name = "close" /\ ~cmd'.dry_run) =>
              \A i \in DOMAIN positions :
                  IF {i} = store_get(positions, cmd'.position_id) THEN Closes(i) ELSE Keeps(i)
        /\ (cmd'.name = "close-auto" /\ ~cmd'.dry_run) =>
              \A i \in DOMAIN positions :
                  IF positions[i].status = "open" /\ positions[i].id \in cmd'.exits
                  THEN Closes(i) ELSE Keeps(i)
      ]_vars

\* 'positions close-auto' without --dry-run has just closed one position on
\* an exit decision and left another one open on a hold decision.
C23_Witness ==
    /\ cmd.name = "close-auto"
    /\ ~cmd.dry_run
    /\ \E i, j \in DOMAIN positions :
          /\ positions[i].id \in cmd.exits
          /\ positions[i].status = "closed"
          /\ positions[i].exit_reason = "TARGET_PROFIT_HIT"
          /\ positions[j].id \notin cmd.exits
          /\ positions[j].status = "open"

\* C30: once a position is stored as closed no close operation changes its
\* stored exit_mid, closed_at, realized_pl_total or exit_reason, and a close
\* aimed at it is rejected.
C30_ClosedIsFinal ==
    [][ \A i \in DOMAIN positions :
            positions[i].status = "closed" =>
                /\ positions'[i].status = "closed"
                /\ positions'[i].exit_mid = positions[i].exit_mid
                /\ positions'[i].closed_at = positions[i].closed_at
                /\ positions'[i].realized_pl_total = positions[i].realized_pl_total
                /\ positions'[i].exit_reason = positions[i].exit_reason
                /\ (cmd'.name \in {"close", "close_position"}
                        /\ {i} = store_get(positions, cmd'.position_id))
                      => cmd'.outcome = "already closed"
      ]_vars

(***************************************************************************)
(* Further properties of build_positions (specifications SpecLots, Spec).  *)
(***************************************************************************)
\* The recorded fills of closing trades applied to legs of the strategy.
AppliedCloses(sid) ==
    { i \in DOMAIN fill_records :
        fill_records[i].leg_id[1] = sid /\ ~IsOpeningFill(fill_records[i]) }

StatusTracksCloses ==
    \A sid \in DOMAIN strategies :
        (strategies[sid].status = "OPEN") <=> (AppliedCloses(sid) = {})

\* C24: a strategy is OPEN exactly while no closing trade has been applied to
\* a leg of it; the step that applies a closing trade leaves the strategy of
\* the matched leg CLOSED when all its legs are at 0 and ADJUSTED otherwise;
\* no step takes a strategy from ADJUSTED to OPEN or out of CLOSED.
C24_StatusForwardOnly ==
    [][ /\ StatusTracksCloses'
        /\ \A sid \in DOMAIN strategies :
              /\ sid \in DOMAIN strategies'
              /\ strategies[sid].status = "CLOSED" => strategies'[sid].status = "CLOSED"
              /\ strategies[sid].status = "ADJUSTED" => strategies'[sid].status # "OPEN"
        /\ (pc = "close" /\ ~IsOrphan(CurrentClose)) =>
              LET sid == LegOf(Env, MatchLeg(Env, CurrentClose)).strategy_id
                  after == strategies'[sid]
              IN  after.status =
                      IF \A l \in DOMAIN after.legs : after.legs[l].remaining_quantity = 0
                      THEN "CLOSED" ELSE "ADJUSTED"
      ]_vars

\* A strategy closed by its second closing trade after the first one left
\* it ADJUSTED: the close of its last contract is the step just taken.
C24_Witness ==
    /\ pc \in {"close", "sort"}
    /\ \E sid \in DOMAIN strategies :
          /\ strategies[sid].status = "CLOSED"
          /\ Cardinality(AppliedCloses(sid)) = 2

ClosedAtTracksBalance ==
    /\ \A leg \in Legs : (leg.closed_at # NoTime) <=> (leg.remaining_quantity = 0)
    /\ \A sid \in DOMAIN strategies :
          (strategies[sid].closed_at # NoTime) <=> (strategies[sid].status = "CLOSED")

\* C25: in every state a leg has closed_at exactly when its remaining_quantity
\* is 0 and a strategy exactly when it is CLOSED; the closing trade that takes
\* a leg to 0 stamps it with its timestamp, the one that closes the last open
\* leg stamps the strategy, and a closed_at that is set is not changed again.
C25_ClosedAtIsClosingTimestamp ==
    [][ /\ ClosedAtTracksBalance'
        /\ \A sid \in DOMAIN strategies :
              /\ strategies[sid].closed_at # NoTime
                    => strategies'[sid].closed_at = strategies[sid].closed_at
              /\ \A l \in DOMAIN strategies[sid].legs :
                    strategies[sid].legs[l].closed_at # NoTime
                        => strategies'[sid].legs[l].closed_at = strategies[sid].legs[l].closed_at
        /\ (pc = "close" /\ ~IsOrphan(CurrentClose)) =>
              LET leg == LegOf(Env, MatchLeg(Env, CurrentClose))
                  after == strategies'[leg.strategy_id]
              IN  /\ after.legs[leg.id].remaining_quantity = 0
                        => after.legs[leg.id].closed_at = CurrentClose.timestamp
                  /\ after.status = "CLOSED" => after.closed_at = CurrentClose.timestamp
      ]_vars

\* A leg closed by two closing trades at different times: the leg and its
\* strategy carry the timestamp of the second, not of the first.
C25_Witness ==
    \E sid \in DOMAIN strategies : \E l \in DOMAIN strategies[sid].legs :
        /\ strategies[sid].status = "CLOSED"
        /\ strategies[sid].closed_at = strategies[sid].legs[l].closed_at
        /\ \E i, j \in AppliedCloses(sid) :
              /\ fill_records[i].leg_id = l
              /\ fill_records[j].leg_id = l
              /\ fill_records[i].ts < fill_records[j].ts
              /\ fill_records[j].ts = strategies[sid].closed_at

(***************************************************************************)
(* Properties of the opening loop's legs (specification SpecLots).         *)
(***************************************************************************)
RECURSIVE TradesQuantity(_)
TradesQuantity(S) ==
    IF S = {} THEN 0
    ELSE LET t == CHOOSE x \in S : TRUE
         IN  t.quantity + TradesQuantity(S \ {t})

RECURSIVE TradesPremium(_)
TradesPremium(S) ==
    IF S = {} THEN 0
    ELSE LET t == CHOOSE x \in S : TRUE
             signed == IF t.side = "SHORT" THEN t.price ELSE 0 - t.price
         IN  signed * t.quantity + TradesPremium(S \ {t})

\* The opening trades of t's order with t's call_put, strike and side.
SameLegOpens(t) ==
    { u \in OpenTrades : /\ u.order_id = t.order_id
                         /\ u.call_put = t.call_put
                         /\ u.strike = t.strike
                         /\ u.side = t.side }

\* The legs of t's strategy with t's call_put, strike and side.
LegsFor(t) ==
    { l \in Range(strategies[StrategyOfTrade(t)].legs) :
        /\ l.call_put = t.call_put
        /\ l.strike = t.strike
        /\ l.side = t.side }

\* The opening loop is over and no closing trade has been processed.
OpeningJustDone == pc \in {"close", "sort"} /\ close_idx = 1

\* C26: once the opening loop is over, the opening trades of one order with
\* the same call_put, strike and side are on a single leg whose open_quantity
\* and remaining_quantity are the sum of their quantities, whose
\* total_signed_premium is the sum of +price*qty (SHORT) or -price*qty
\* (LONG), whose opened_at is their earliest timestamp, and the opening loop
\* appended exactly one FillRecord per opening trade, on that leg, with the
\* trade's quantity.
C26_OpensAccumulateOnOneLeg ==
    OpeningJustDone =>
        /\ Len(fill_records) = Cardinality(OpenTrades)
        /\ \A t \in OpenTrades :
              /\ Cardinality(LegsFor(t)) = 1
              /\ Cardinality({ i \in DOMAIN fill_records :
                                 fill_records[i].id = t.trade_id }) = 1
              /\ \A leg \in LegsFor(t) :
                    /\ leg.open_quantity = TradesQuantity(SameLegOpens(t))
                    /\ leg.remaining_quantity = TradesQuantity(SameLegOpens(t))
                    /\ leg.total_signed_premium = TradesPremium(SameLegOpens(t))
                    /\ leg.opened_at = MinOf({ u.timestamp : u \in SameLegOpens(t) })
                    /\ \A i \in DOMAIN fill_records :
                          fill_records[i].id = t.trade_id =>
                             /\ fill_records[i].leg_id = leg.id
                             /\ fill_records[i].qty = t.quantity

\* A leg opened by two lots of different sizes at different prices and times.
C26_Witness ==
    /\ OpeningJustDone
    /\ Len(trades) = 3
    /\ \E t \in OpenTrades : \E u \in SameLegOpens(t) :
          /\ u.timestamp # t.timestamp
          /\ u.quantity # t.quantity
          /\ u.price # t.price
    /\ \E leg \in Legs : leg.open_quantity = 3

(***************************************************************************)
(* Properties of the order of opens and closes (specification Spec).       *)
(***************************************************************************)
\* C27: no closing trade is applied to a leg opened after it: every closing
\* fill matched to a leg has ts >= the leg's opened_at, every closed leg has
\* closed_at >= opened_at and every closed strategy has closed_at >=
\* opened_at.
C27_ClosesFollowOpens ==
    /\ \A leg \in Legs :
          /\ \A i \in DOMAIN ClosingFillsOf(leg) :
                ClosingFillsOf(leg)[i].ts >= leg.opened_at
          /\ leg.closed_at # NoTime => leg.closed_at >= leg.opened_at
    /\ \A sid \in DOMAIN strategies :
          strategies[sid].closed_at # NoTime =>
              strategies[sid].closed_at >= strategies[sid].opened_at

(***************************************************************************)
(* build_positions over one order that opens the same strike and side in   *)
(* two expirations, and later closes of either contract.                   *)
(***************************************************************************)
RollExpirations == {"2024-01-19", "2024-02-16"}

RollPool ==
    { ParsedTrade(1, und, exp, leg, 1, LotPrice(1), "OPEN", "o1", 0, fees) :
        und \in Underlyings, exp \in RollExpirations,
        leg \in OptionLegs, fees \in Fees }
    \cup
    { ParsedTrade(2, und, exp, leg, 1, LotPrice(2), "CLOSE", "oc", 0, fees) :
        und \in Underlyings, exp \in RollExpirations,
        leg \in OptionLegs, fees \in Fees }

InitRoll == InitOver(RollPool, MaxTrades)

SpecRoll == InitRoll /\ [][Next]_vars

\* The leg an opening trade's fill was recorded on.
LegIdOfTrade(t) ==
    LET i == CHOOSE j \in DOMAIN fill_records : fill_records[j].id = t.trade_id
    IN  fill_records[i].leg_id

\* C28: every leg aggregates opening trades of exactly one contract: once the
\* opening loop is over, each opening trade's fill is on a leg registered in
\* open_leg_lookup under the trade's own (underlying, expiration, call_put,
\* strike, side), and on no leg registered under another key.
C28_LegHoldsOneContract ==
    AfterOpening =>
        \A t \in OpenTrades :
            /\ LookupKey(t) \in DOMAIN open_leg_lookup
            /\ \A key \in DOMAIN open_leg_lookup :
                  LegIdOfTrade(t) \in Range(open_leg_lookup[key]) <=> key = LookupKey(t)

(***************************************************************************)
(* What an applied closing trade changes (specification Spec).             *)
(***************************************************************************)
\* The strategy with the fields an applied close may write taken from old.
StrategyFrame(new, old) ==
    [new EXCEPT !.status = old.status, !.closed_at = old.closed_at, !.legs = old.legs]

LegFrame(new, old) ==
    [new EXCEPT !.remaining_quantity = old.remaining_quantity,
                !.closed_at = old.closed_at]

\* C29: the step that applies a closing trade changes only the matched leg's
\* remaining_quantity and closed_at and its strategy's status and closed_at,
\* and appends one FillRecord: no leg's open_quantity, total_signed_premium
\* or opened_at changes, no remaining_quantity grows, no leg or strategy is
\* created, the closing index is left alone, and every other leg and
\* strategy is unchanged.
C29_CloseFrame ==
    [][ (pc = "close" /\ ~IsOrphan(CurrentClose)) =>
            LET matched == MatchLeg(Env, CurrentClose)
                parent == LegOf(Env, matched).strategy_id
            IN  /\ DOMAIN strategies' = DOMAIN strategies
                /\ \A sid \in DOMAIN strategies :
                      /\ DOMAIN strategies'[sid].legs = DOMAIN strategies[sid].legs
                      /\ StrategyFrame(strategies'[sid], strategies[sid]) = strategies[sid]
                      /\ sid # parent => strategies'[sid] = strategies[sid]
                      /\ \A l \in DOMAIN strategies[sid].legs :
                            LET old == strategies[sid].legs[l]
                                new == strategies'[sid].legs[l]
                            IN  /\ LegFrame(new, old) = old
                                /\ new.open_quantity = old.open_quantity
                                /\ new.total_signed_premium = old.total_signed_premium
                                /\ new.opened_at = old.opened_at
                                /\ new.remaining_quantity <= old.remaining_quantity
                                /\ l # matched => new = old
                /\ LegOf(Env, matched).remaining_quantity >
                      strategies'[parent].legs[matched].remaining_quantity
                /\ open_leg_lookup' = open_leg_lookup
                /\ Len(fill_records') = Len(fill_records) + 1
                /\ SubSeq(fill_records', 1, Len(fill_records)) = fill_records
                /\ fill_records'[Len(fill_records')].id = CurrentClose.trade_id
                /\ fill_records'[Len(fill_records')].leg_id = matched
      ]_vars

\* A closing trade was just applied to one leg while a second strategy with
\* a leg of its own stood next to it.
C29_Witness ==
    /\ pc \in {"close", "sort"}
    /\ close_idx = 2
    /\ HasFill(closing[1])
    /\ Cardinality(DOMAIN strategies) = 2
    /\ Cardinality(Legs) = 2
    /\ \E leg \in Legs : leg.remaining_quantity < leg.open_quantity

====
